---- MODULE Spec2Model ----
(***************************************************************************)
(* Restaurant phone-ordering backend: the order / call-log store, the      *)
(* voice webhook handlers, the payment webhook, the order endpoints and    *)
(* the Celery worker that runs the queued export and kitchen jobs.         *)
(* Money is held in integer cents; timestamps are ticks of a logical       *)
(* clock that advances on every statement reading the wall clock.          *)
(*                                                                         *)
(* The function handlers of VapiWebhookHandler (_func_create_order,        *)
(* _func_check_address, _func_record_message, ...) are modelled as         *)
(* operations in their own right, as the routing table of                  *)
(* _handle_function_call invokes them.  The webhook route down to that     *)
(* routing table is the separate action function_call_webhook: as written  *)
(* it raises at vapi_handler.py:147 before any handler is chosen.          *)
(***************************************************************************)
EXTENDS Integers, Sequences, FiniteSets, TLC

\* ------------------------------------------------------------------ bounds
MaxOrders == 2
MaxClock == 2
MaxItems == 2
MaxQty == 2
MaxJobs == 3
MaxLost == 1

\* ------------------------------------------------------- program constants
\* settings.tax_rate = 0.08875, as TaxRateNum / TaxRateDen
TaxRateNum == 8875
TaxRateDen == 100000
\* settings.delivery_fee = 5.99, in cents
delivery_fee == 599

NULL == "NULL"
\* a nullable timestamp column that was never written
NoTime == 0

CallIds == {"call_1", "call_2"}
Workers == {"w1", "w2"}

\* models.OrderStatus
OrderStatus ==
  {"PENDING", "CONFIRMED", "PAYMENT_PENDING", "PAID", "PREPARING", "READY",
   "OUT_FOR_DELIVERY", "DELIVERED", "PICKED_UP", "FAILED", "CANCELLED",
   "TRANSFERRED_TO_HUMAN"}

\* the statuses after which an order is finished (spec 4.3)
TerminalStatus ==
  {"DELIVERED", "PICKED_UP", "FAILED", "CANCELLED", "TRANSFERRED_TO_HUMAN"}

\* vapi_schemas.VapiMessageType: the webhook types the payload model accepts
VapiMessageType ==
  {"function-call", "end-of-call-report", "status-update", "transcript",
   "hang", "speech-update", "conversation-update"}

\* the attributes a parsed VapiWebhookPayload has
VapiWebhookPayloadFields ==
  {"type", "function_call", "call", "transcript", "messages", "summary",
   "recording_url", "status"}

\* the names bound in main.py's module namespace by its imports
MainImports ==
  {"Order", "OrderStatus", "OrderType", "CallLog", "CallOutcome",
   "OrderCreate", "OrderResponse", "OrderCreateResponse", "OrderListResponse",
   "CallLogCreate", "CallLogResponse", "ErrorResponse", "HealthResponse",
   "SendPaymentLinkRequest", "NotificationResponse", "KitchenOrderRequest",
   "KitchenOrderResponse"}

\* ----------------------------------------------------------------- helpers
RECURSIVE SumSeq(_)
SumSeq(s) == IF s = <<>> THEN 0 ELSE Head(s) + SumSeq(Tail(s))

\* round(x, 2) of the float num/den (in cents): the nearest integers.  At an
\* exact decimal tie the float product's representation error decides, so
\* both neighbours are outcomes.
Round2(num, den) ==
  LET lo == num \div den
  IN {t \in {lo, lo + 1} : 2 * (num - t * den) <= den /\ 2 * (t * den - num) <= den}

\* ------------------------------------------------------------------- state
VARIABLES
  orders,         \* the orders table: row id = index
  call_logs,      \* the call_logs table
  queue,          \* Celery jobs queued with .delay(), oldest first
  notifications,  \* notification-service calls made
  tasks,          \* create_order request handlers: position and pending row
  validated,      \* calls whose check_delivery_address answered delivery_available
  delivered,      \* payment events delivered so far that named a stored order
  geo,            \* the last validate_address call: its arguments and result
  celery,         \* the runs of the queued jobs, by position in queue
  ledger,         \* the spreadsheet ledgers: rows written and lock holders
  settings,       \* the deployment's configuration, fixed at start-up
  now,            \* logical wall clock
  response        \* the last request handled and its response

vars ==
  <<orders, call_logs, queue, notifications, tasks, validated, delivered, geo,
    celery, ledger, settings, now, response>>

Resp(op, call_id, http, success, message) ==
  [op |-> op, call_id |-> call_id, http |-> http, success |-> success,
   message |-> message]

\* main.vapi_webhook's except branch
VapiErrorEnvelope(op, call_id) ==
  Resp(op, call_id, 200, FALSE, "Sorry, there was an error. Please try again.")

\* VapiWebhookHandler._error_response
error_response(op, call_id, message) == Resp(op, call_id, 200, FALSE, message)

Acknowledged(op, call_id) == Resp(op, call_id, 200, TRUE, "acknowledged")

IdleTask == [pc |-> "idle", row |-> <<>>, prior |-> 0, contact |-> FALSE]

InitStore ==
  /\ orders = <<>>
  /\ call_logs = <<>>
  /\ queue = <<>>
  /\ notifications = {}
  /\ tasks = [w \in Workers |-> IdleTask]
  /\ validated = {}
  /\ delivered = {}
  /\ geo = [svc |-> "none", address |-> "", zip_code |-> "", draw |-> "ok",
            result |-> [is_valid |-> FALSE, is_in_delivery_zone |-> FALSE,
                        formatted_address |-> <<>>]]
  /\ celery = <<>>
  /\ ledger = [rows |-> [orders |-> <<>>, calls |-> <<>>],
               lock |-> [orders |-> 0, calls |-> 0]]
  /\ now = 1
  /\ response = Resp("none", NULL, 200, TRUE, "")

\* core/config.py: ENV_MODE and STRIPE_WEBHOOK_SECRET as the process read them
Settings(env_mode, stripe_webhook_secret) ==
  [env_mode |-> env_mode, stripe_webhook_secret |-> stripe_webhook_secret]

\* the defaults: development mode, no webhook secret
Init == InitStore /\ settings = Settings("development", NULL)

OrdersOfCall(c) == {i \in DOMAIN orders : orders[i].call_id = c}

\* ------------------------------------------------- function-call parameters
\* str.lower() on the order_type strings a caller sends
Lower(s) ==
  CASE s = "Pickup" -> "pickup"
    [] s = "DELIVERY" -> "delivery"
    [] OTHER -> s

Item(name, quantity, unit_price) ==
  [name |-> name, quantity |-> quantity, unit_price |-> unit_price]

\* what a caller may put in an item: two MENU_ITEMS entries and a price that
\* no menu entry has (create_order takes unit_price from the parameters)
ItemKinds ==
  {[name |-> "Pizza Margherita", unit_price |-> 1499],
   [name |-> "Bottled Water", unit_price |-> 199],
   [name |-> "Chef Special", unit_price |-> 400]}

ItemChoices ==
  {Item(k.name, q, k.unit_price) : k \in ItemKinds, q \in 1..MaxQty}

ItemLists == UNION {[1..n -> ItemChoices] : n \in 0..MaxItems}

OrderTypeInputs == {"pickup", "Pickup", "pick up", "delivery", "DELIVERY"}

Params(order_type, items, tip, payment_id, payment_method, contact) ==
  [order_type |-> order_type, items |-> items, tip |-> tip,
   payment_id |-> payment_id, payment_method |-> payment_method,
   contact |-> contact]

\* the create_order requests of the order-lifecycle specification
DraftItems == <<Item("Pizza Margherita", 2, 1499)>>

CreateParams ==
  {Params(t, i, 0, pay[1], pay[2], TRUE) :
     t \in {"pickup", "pick up", "delivery"},
     i \in {<<>>, DraftItems},
     pay \in {<<NULL, "card">>, <<NULL, "cash">>, <<"pi_0", "card">>}}

\* the create_order requests of the totals specification
TotalsParams ==
  {Params(t, i, tip, NULL, "card", c) :
     t \in OrderTypeInputs, i \in ItemLists, tip \in {0, 200},
     c \in BOOLEAN}

\* ---------------------------------------------------- voice: create_order
\* vapi_handler.py:582
VoiceOrderType(order_type_str) ==
  IF Lower(order_type_str) = "pickup" THEN "PICKUP" ELSE "DELIVERY"

\* vapi_handler.py:611
VoiceSubtotal(items) ==
  SumSeq([k \in DOMAIN items |-> items[k].quantity * items[k].unit_price])

\* the tax truncated to the cent instead of rounded
VoiceTax_truncated(subtotal) == {(subtotal * TaxRateNum) \div TaxRateDen}

\* vapi_handler.py:612
VoiceTax(subtotal) == Round2(subtotal * TaxRateNum, TaxRateDen)

\* the delivery fee charged whatever the order type
VoiceDeliveryFee_flat(order_type) == delivery_fee

\* vapi_handler.py:613
VoiceDeliveryFee(order_type) ==
  IF order_type = "DELIVERY" THEN delivery_fee ELSE 0

\* vapi_handler.py:615; the sum of cent amounts is exact to the cent
VoiceTotal(subtotal, tax, fee, tip) == subtotal + tax + fee + tip

\* an order created as CONFIRMED whatever the payment
VoiceInitialStatus_confirmed(payment_id) == "CONFIRMED"

\* vapi_handler.py:643
VoiceInitialStatus(payment_id) ==
  IF payment_id # NULL THEN "PAID" ELSE "PAYMENT_PENDING"

\* the Order(...) constructed at vapi_handler.py:621-649, the column defaults
\* of models.Order filled in
VoiceOrderRow(p, call_id, tax) ==
  LET order_type == VoiceOrderType(p.order_type)
      subtotal == VoiceSubtotal(p.items)
      fee == VoiceDeliveryFee(order_type)
  IN [order_type |-> order_type,
      items |-> p.items,
      subtotal |-> subtotal,
      tax |-> tax,
      delivery_fee |-> fee,
      tip |-> p.tip,
      total_amount |-> VoiceTotal(subtotal, tax, fee, p.tip),
      payment_intent_id |-> p.payment_id,
      payment_status |-> IF p.payment_id # NULL THEN "paid" ELSE "pending",
      payment_method |-> p.payment_method,
      payment_link_sent |-> FALSE,
      status |-> VoiceInitialStatus(p.payment_id),
      call_id |-> call_id,
      call_transcription |-> NULL,
      call_recording_url |-> NULL,
      call_duration_seconds |-> NULL,
      transferred_to_human |-> FALSE,
      sent_to_kitchen |-> FALSE,
      sent_to_kitchen_at |-> NoTime,
      updated_at |-> NoTime,
      completed_at |-> NoTime]

\* the emptiness check left out
NoItems_never(p) == FALSE

\* vapi_handler.py:602: `if not items`
NoItems(p) == p.items = <<>>

Job(task, ref) == [task |-> task, ref |-> ref]

\* vapi_handler.py:651-712: INSERT the row, queue the export, send the
\* confirmation when a phone number or e-mail is known, answer
InsertVoiceOrder(row, contact) ==
  LET id == Len(orders) + 1
  IN /\ orders' = Append(orders, row)
     /\ queue' = Append(queue, Job("export_order_to_excel", id))
     /\ notifications' =
          IF contact
            THEN notifications \cup {[kind |-> "order_confirmation", order_id |-> id]}
            ELSE notifications
     /\ response' = Resp("create_order", row.call_id, 200, TRUE,
          "Your order number is ...")

EmptyOrderResponse(c) ==
  Resp("create_order", c, 200, FALSE,
       "I don't have any items in your order. What would you like to order?")

\* _func_create_order, the whole handler
func_create_order(c, p) ==
  IF NoItems(p)
  THEN /\ response' = EmptyOrderResponse(c)
       /\ UNCHANGED <<orders, call_logs, queue, notifications, tasks, validated, geo, settings, celery, ledger,
                      delivered, now>>
  ELSE /\ Len(orders) < MaxOrders
       /\ \E tax \in VoiceTax(VoiceSubtotal(p.items)) :
            InsertVoiceOrder(VoiceOrderRow(p, c, tax), p.contact)
       /\ UNCHANGED <<call_logs, tasks, validated, geo, settings, celery, ledger, delivered, now>>

\* _func_create_order as two steps of request handler w, split at its
\* `await db.commit()`.  Before it: reject an empty order, or build the row.
\* `prior` notes how many orders of the call were stored when w began.
func_create_order_begin(w, c, p) ==
  /\ tasks[w].pc # "commit"
  /\ IF NoItems(p)
       THEN /\ response' = EmptyOrderResponse(c)
            /\ tasks' = [tasks EXCEPT ![w] = IdleTask]
       ELSE /\ \E tax \in VoiceTax(VoiceSubtotal(p.items)) :
                 tasks' = [tasks EXCEPT ![w] =
                   [pc |-> "commit", row |-> <<VoiceOrderRow(p, c, tax)>>,
                    prior |-> Cardinality(OrdersOfCall(c)),
                    contact |-> p.contact]]
            /\ response' = Resp("create_order_pending", c, 200, TRUE, "")
  /\ UNCHANGED <<orders, call_logs, queue, notifications, validated, geo, settings, celery, ledger, delivered, now>>

\* ... and from the commit on
func_create_order_commit(w) ==
  /\ tasks[w].pc = "commit"
  /\ Len(orders) < MaxOrders
  /\ InsertVoiceOrder(tasks[w].row[1], tasks[w].contact)
  /\ tasks' = [tasks EXCEPT ![w].pc = "done"]
  /\ UNCHANGED <<call_logs, validated, geo, settings, celery, ledger, delivered, now>>

\* --------------------------------------------- voice: check_delivery_address
\* settings.valid_zip_codes, two of its entries and one zip outside it
ValidZipCodes == {"10001", "10002"}
ZipInputs == {"10001", "99999"}
AddressInputs == {"", "350 Fifth Avenue"}

\* GeoValidationResult; formatted_address is <<>> for None
GeoResult(is_valid, in_zone, formatted) ==
  [is_valid |-> is_valid, is_in_delivery_zone |-> in_zone,
   formatted_address |-> formatted]

\* str.title() on the street addresses a caller gives
Title(s) ==
  CASE s = "350 fifth avenue" -> "350 Fifth Avenue"
    [] OTHER -> s

\* MockGeoService.validate_address; `fail` is _should_fail()'s draw
MockValidateAddress(address, zip_code, fail) ==
  IF fail THEN GeoResult(FALSE, FALSE, <<>>)
  ELSE IF address = "" THEN GeoResult(FALSE, FALSE, <<>>)
  ELSE IF zip_code \notin ValidZipCodes THEN GeoResult(FALSE, FALSE, <<>>)
  ELSE GeoResult(TRUE, TRUE,
         <<[street |-> Title(address), city |-> "New York", state |-> "NY",
            zip_code |-> zip_code]>>)

\* GoogleGeoService.validate_address; `draw` is what the geocoding API does:
\* "ok" a result, "not_found" an empty result list, "error" an exception
GoogleValidateAddress(address, zip_code, draw) ==
  LET formatted == <<[street |-> address, city |-> "New York", state |-> "NY",
                      zip_code |-> zip_code]>>
  IN IF draw # "ok" THEN GeoResult(FALSE, FALSE, <<>>)
     ELSE IF zip_code \notin ValidZipCodes THEN GeoResult(FALSE, FALSE, formatted)
     ELSE GeoResult(TRUE, TRUE, formatted)

\* get_geo_service(): the mock in development mode, Google otherwise
GeoServices == {"mock", "google"}
GeoDraws == {"ok", "not_found", "error"}

ValidateAddress(svc, address, zip_code, draw) ==
  IF svc = "mock"
    THEN MockValidateAddress(address, zip_code, draw = "error")
    ELSE GoogleValidateAddress(address, zip_code, draw)

GeoCall(svc, address, zip_code, draw) ==
  [svc |-> svc, address |-> address, zip_code |-> zip_code, draw |-> draw,
   result |-> ValidateAddress(svc, address, zip_code, draw)]

SuggestPickupMessage == "I'm sorry, we don't deliver to ... pickup order instead?"
AddressNotFoundMessage == "I couldn't find that address. Could you please repeat it?"

\* _func_check_address: answers from the geo result and stores nothing
func_check_address(c, svc, address, zip_code, draw) ==
  LET result == ValidateAddress(svc, address, zip_code, draw)
  IN /\ geo' = GeoCall(svc, address, zip_code, draw)
     /\ IF result.is_valid /\ result.is_in_delivery_zone
          THEN /\ response' = Resp("check_delivery_address", c, 200, TRUE,
                    "Great! We can deliver to ...")
               /\ validated' = validated \cup {c}
          ELSE IF result.is_valid /\ ~result.is_in_delivery_zone
          THEN /\ response' = Resp("check_delivery_address", c, 200, FALSE,
                    SuggestPickupMessage)
               /\ UNCHANGED validated
          ELSE /\ response' = Resp("check_delivery_address", c, 200, FALSE,
                    AddressNotFoundMessage)
               /\ UNCHANGED validated
     /\ UNCHANGED <<celery, ledger, settings, orders, call_logs, queue, notifications, tasks, delivered, now>>

\* ------------------------------------------------ voice: end-of-call-report
Report == [transcript |-> "transcript_1", recording_url |-> "rec_1",
           duration_seconds |-> "40s"]

\* getattr on the parsed payload: an attribute the model class does not
\* declare raises AttributeError
HasAttr(name) == name \in VapiWebhookPayloadFields

PatchOrder(o, rep, t) ==
  LET n == [o EXCEPT !.call_transcription = rep.transcript,
                     !.call_recording_url = rep.recording_url,
                     !.call_duration_seconds = rep.duration_seconds]
  IN IF n = o THEN o ELSE [n EXCEPT !.updated_at = t]

PatchCallLog(l, rep, t) ==
  [l EXCEPT !.transcription = rep.transcript,
            !.recording_url = rep.recording_url,
            !.call_duration_seconds = rep.duration_seconds,
            !.call_ended_at = t]

LogsOfCall(c) == {i \in DOMAIN call_logs : call_logs[i].call_id = c}

\* an end-of-call handler that records the call when no row matches it
handle_end_of_call_upsert(c, rep) ==
  /\ LogsOfCall(c) = {}
  /\ call_logs' = Append(call_logs,
       [call_id |-> c, outcome |-> "NO_ORDER", wanted_to_order |-> FALSE,
        customer_message |-> NULL, transcription |-> rep.transcript,
        recording_url |-> rep.recording_url,
        call_duration_seconds |-> rep.duration_seconds, call_ended_at |-> now])
  /\ response' = Acknowledged("end-of-call-report", c)
  /\ UNCHANGED <<orders, queue, notifications, tasks, validated, geo, settings, celery, ledger, delivered, now>>

\* vapi_webhook -> handle_webhook -> _handle_end_of_call for call c.
\* Line 843 reads payload.duration_seconds before the try block; the
\* AttributeError reaches vapi_webhook's except branch.
handle_end_of_call(c, rep) ==
  IF ~HasAttr("duration_seconds")
  THEN /\ response' = VapiErrorEnvelope("end-of-call-report", c)
       /\ UNCHANGED <<orders, call_logs, queue, notifications, tasks, validated, geo, settings, celery, ledger,
                      delivered, now>>
  ELSE /\ now <= MaxClock
       /\ response' = Acknowledged("end-of-call-report", c)
       /\ IF Cardinality(OrdersOfCall(c)) > 1
            \* scalar_one_or_none raises MultipleResultsFound: logged, no update
            THEN UNCHANGED <<orders, call_logs>>
            ELSE /\ orders' = [i \in DOMAIN orders |->
                       IF i \in OrdersOfCall(c)
                         THEN PatchOrder(orders[i], rep, now) ELSE orders[i]]
                 /\ call_logs' = [i \in DOMAIN call_logs |->
                       IF i \in LogsOfCall(c)
                         THEN PatchCallLog(call_logs[i], rep, now)
                         ELSE call_logs[i]]
       /\ now' = now + 1
       /\ UNCHANGED <<queue, notifications, tasks, validated, geo, settings, celery, ledger, delivered>>

\* ------------------------------------------------------ voice: record_message
\* the columns of models.CallLog declared nullable=False without a default
CallLogRequired == {"call_id", "caller_phone", "call_started_at"}
\* the columns _func_record_message gives a value
CallLogGiven ==
  {"call_id", "caller_phone", "caller_language", "transcription",
   "recording_url", "wanted_to_order", "outcome", "customer_message",
   "handled_by_ai"}

CallLogRow(c, message) ==
  [call_id |-> c, outcome |-> "NO_ORDER", wanted_to_order |-> FALSE,
   customer_message |-> message, transcription |-> NULL,
   recording_url |-> NULL, call_duration_seconds |-> NULL,
   call_ended_at |-> NoTime]

\* an INSERT that no constraint of the table stops
func_record_message_unchecked(c, message) ==
  /\ call_logs' = Append(call_logs, CallLogRow(c, message))
  /\ queue' = Append(queue, Job("export_call_log_to_excel", c))
  /\ response' = Resp("record_message", c, 200, TRUE,
       "I've recorded your message. ...")
  /\ UNCHANGED <<orders, notifications, tasks, validated, geo, settings, celery,
                 ledger, delivered, now>>

\* _func_record_message: the INSERT violates NOT NULL (or the unique call_id)
\* and the except branch answers; otherwise the row is stored and exported
func_record_message(c, message) ==
  IF ~(CallLogRequired \subseteq CallLogGiven) \/ LogsOfCall(c) # {}
  THEN /\ response' = error_response("record_message", c,
            "I'm sorry, I couldn't record your message.")
       /\ UNCHANGED <<orders, call_logs, queue, notifications, tasks, validated, geo, settings, celery, ledger,
                      delivered, now>>
  ELSE /\ call_logs' = Append(call_logs, CallLogRow(c, message))
       /\ queue' = Append(queue, Job("export_call_log_to_excel", c))
       /\ response' = Resp("record_message", c, 200, TRUE,
            "I've recorded your message. ...")
       /\ UNCHANGED <<orders, notifications, tasks, validated, geo, settings, celery, ledger, delivered, now>>

\* ------------------------------------------ voice: function-call dispatch
\* the keys of the routing table of _handle_function_call
FunctionHandlers ==
  {"check_wants_to_order", "select_order_type", "check_delivery_address",
   "validate_address", "get_menu", "add_items_to_order",
   "remove_item_from_order", "confirm_order", "get_order_summary",
   "process_payment", "create_payment_link", "create_order", "place_order",
   "transfer_to_human", "request_human_agent", "record_message",
   "leave_message", "get_order_status"}

WebhookEndpoints == {"vapi", "simulation"}

\* main.vapi_webhook answers an exception with the error envelope;
\* main.simulation_webhook answers it with {"error": str(e)}
WebhookErrorBody(endpoint, op, call_id) ==
  IF endpoint = "vapi"
    THEN VapiErrorEnvelope(op, call_id)
    ELSE [op |-> op, call_id |-> call_id, http |-> 200,
          error |-> "'VapiWebhookPayload' object has no attribute ..."]

\* POST /webhook/vapi or /webhook/simulation with a function-call event:
\* handle_webhook -> _handle_function_call.  Line 147 evaluates
\* payload.detected_language, which VapiWebhookPayload does not declare: the
\* AttributeError reaches the route's except branch before a handler is chosen.
function_call_webhook(endpoint, c, name, has_function_call) ==
  IF ~has_function_call
  THEN /\ response' = error_response("function-call", c,
            "Invalid function call payload")
       /\ UNCHANGED <<orders, call_logs, queue, notifications, tasks, validated,
                      geo, settings, celery, ledger, delivered, now>>
  ELSE IF ~HasAttr("detected_language")
  THEN /\ response' = WebhookErrorBody(endpoint, "function-call", c)
       /\ UNCHANGED <<orders, call_logs, queue, notifications, tasks, validated,
                      geo, settings, celery, ledger, delivered, now>>
  ELSE IF name \notin FunctionHandlers
  THEN /\ response' = error_response("function-call", c, "Unknown function: ...")
       /\ UNCHANGED <<orders, call_logs, queue, notifications, tasks, validated,
                      geo, settings, celery, ledger, delivered, now>>
  ELSE IF name \in {"create_order", "place_order"}
  THEN \E p \in CreateParams : func_create_order(c, p)
  ELSE IF name \in {"check_delivery_address", "validate_address"}
  THEN \E a \in AddressInputs, z \in ZipInputs, d \in GeoDraws :
         func_check_address(c, "mock", a, z, d)
  ELSE IF name \in {"record_message", "leave_message"}
  THEN func_record_message(c, "call me back")
  \* the handlers that only answer
  ELSE /\ response' = Resp("function-call", c, 200, TRUE, "...")
       /\ UNCHANGED <<orders, call_logs, queue, notifications, tasks, validated,
                      geo, settings, celery, ledger, delivered, now>>

\* ------------------------------------------------- voice: transfer-request
\* VapiWebhookPayload(**payload_dict) rejects a type outside VapiMessageType
\* and vapi_webhook's except branch answers; otherwise _handle_transfer_request
handle_transfer_request(c) ==
  IF "transfer-request" \notin VapiMessageType
  THEN /\ response' = VapiErrorEnvelope("transfer-request", c)
       /\ UNCHANGED <<orders, call_logs, queue, notifications, tasks, validated, geo, settings, celery, ledger,
                      delivered, now>>
  ELSE /\ now <= MaxClock
       /\ response' = Resp("transfer-request", c, 200, TRUE, "transfer")
       /\ IF Cardinality(OrdersOfCall(c)) > 1
            THEN UNCHANGED orders
            ELSE orders' = [i \in DOMAIN orders |->
                   IF i \in OrdersOfCall(c)
                     THEN [orders[i] EXCEPT !.transferred_to_human = TRUE,
                                            !.status = "TRANSFERRED_TO_HUMAN",
                                            !.updated_at = now]
                     ELSE orders[i]]
       /\ now' = now + 1
       /\ UNCHANGED <<call_logs, queue, notifications, tasks, validated, geo, settings, celery, ledger, delivered>>

\* ------------------------------------------------------- POST /webhook/stripe
EventTypes == {"checkout.session.completed", "payment_intent.succeeded"}
PaymentIntents == {"pi_1"}

\* the events a payment provider may post: metadata.order_id may name no order
Events ==
  [type : EventTypes, order_id : 1..MaxOrders, payment_intent : PaymentIntents]

\* MockPaymentService.verify_webhook: json.loads(payload), no signature check
MockVerifyWebhook(ev, well_formed) == IF well_formed THEN <<ev>> ELSE <<>>

\* the assignments of main.py:310-314 followed by the commit (onupdate)
MarkPaid(o, ev, t) ==
  [o EXCEPT !.payment_status = "paid",
            !.payment_intent_id = ev.payment_intent,
            !.status = "PAID",
            !.sent_to_kitchen = TRUE,
            !.sent_to_kitchen_at = t,
            !.updated_at = t]

\* settings.stripe_webhook_secret (config.py:154-157): optional, default None
WebhookSecrets == {NULL, "whsec_1"}

\* the key the sender of a webhook signed its payload with; NULL: no
\* stripe-signature header
SignatureKeys == {NULL, "whsec_1", "whsec_forged"}

\* StripePaymentService.verify_webhook (stripe.py:333-377): without a
\* configured secret the payload is parsed and returned unverified; with one,
\* stripe.Webhook.construct_event checks the signature against the secret
\* and parses the payload, and every exception gives None
StripeVerifyWebhook(secret, ev, well_formed, signed_with) ==
  IF secret = NULL
  THEN IF well_formed THEN <<ev>> ELSE <<>>
  ELSE IF signed_with = secret /\ well_formed THEN <<ev>> ELSE <<>>

\* main.stripe_webhook from the result of verify_webhook on
HandleStripeEvent(event, ev) ==
  IF event = <<>>
  \* HTTPException(400) is raised inside the try and caught by
  \* `except Exception`, which raises HTTPException(500)
  THEN /\ response' = Resp("stripe_webhook", NULL, 500, FALSE, "Invalid signature")
       /\ UNCHANGED <<orders, call_logs, queue, notifications, tasks, validated, geo, settings,
                      celery, ledger, delivered, now>>
  ELSE /\ response' = Resp("stripe_webhook", NULL, 200, TRUE, "received")
       /\ IF ev.type = "checkout.session.completed" /\ ev.order_id \in DOMAIN orders
            THEN /\ now <= MaxClock
                 /\ delivered' = delivered \cup {ev}
                 /\ orders' = [orders EXCEPT
                      ![ev.order_id] = MarkPaid(orders[ev.order_id], ev, now)]
                 /\ queue' = Append(queue, Job("send_to_kitchen", ev.order_id))
                 /\ now' = now + 1
            ELSE UNCHANGED <<orders, queue, now, delivered>>
       /\ UNCHANGED <<call_logs, notifications, tasks, validated, geo, settings, celery, ledger>>

\* services/payment/__init__.py:70-84: the mock in development mode,
\* StripePaymentService otherwise
get_payment_service ==
  IF settings.env_mode = "development" THEN "mock" ELSE "stripe"

\* main.py:291-292: payment_service.verify_webhook(body, stripe_signature or "")
VerifyWebhook(ev, well_formed, signed_with) ==
  IF get_payment_service = "mock"
  THEN MockVerifyWebhook(ev, well_formed)
  ELSE StripeVerifyWebhook(settings.stripe_webhook_secret, ev, well_formed,
                           signed_with)

\* main.stripe_webhook, the whole handler, for a request whose
\* stripe-signature header was made with the key signed_with
stripe_webhook_signed(ev, well_formed, signed_with) ==
  HandleStripeEvent(VerifyWebhook(ev, well_formed, signed_with), ev)

\* main.stripe_webhook for a request without stripe-signature header
stripe_webhook(ev, well_formed) == stripe_webhook_signed(ev, well_formed, NULL)

\* ----------------------------------------------------------- POST /api/orders
\* main.calculate_totals: tax outcomes are chosen by the caller
calculate_totals(items, order_type, tip, tax) ==
  LET subtotal == SumSeq([k \in DOMAIN items |->
                     items[k].quantity * items[k].unit_price])
      fee == IF order_type = "delivery" THEN delivery_fee ELSE 0
  IN [subtotal |-> subtotal, tax |-> tax, delivery_fee |-> fee, tip |-> tip,
      total_amount |-> subtotal + tax + fee + tip]

\* the requests OrderCreate accepts (items has min_length 1)
ApiParams ==
  [order_type : {"pickup", "delivery"}, items : {DraftItems}, tip : {0},
   payment_method : {"card"}, call_id : {NULL, "call_1"},
   address : {"350 Fifth Avenue"}, zip_code : ZipInputs]

ApiOrderRow(d, totals) ==
  [order_type |-> IF d.order_type = "pickup" THEN "PICKUP" ELSE "DELIVERY",
   items |-> d.items,
   subtotal |-> totals.subtotal,
   tax |-> totals.tax,
   delivery_fee |-> totals.delivery_fee,
   tip |-> totals.tip,
   total_amount |-> totals.total_amount,
   payment_intent_id |-> NULL,
   payment_status |-> "pending",
   payment_method |-> d.payment_method,
   payment_link_sent |-> FALSE,
   status |-> "PENDING",
   call_id |-> d.call_id,
   call_transcription |-> NULL,
   call_recording_url |-> NULL,
   call_duration_seconds |-> NULL,
   transferred_to_human |-> FALSE,
   sent_to_kitchen |-> FALSE,
   sent_to_kitchen_at |-> NoTime,
   updated_at |-> NoTime,
   completed_at |-> NoTime]

\* main.create_order.  Line 348 evaluates OrderTypeEnum, a name main.py does
\* not import: NameError, caught by `except Exception`, answered with 500.
create_order(d, fail) ==
  IF "OrderTypeEnum" \notin MainImports
  THEN /\ response' = Resp("api_create_order", NULL, 500, FALSE, "NameError")
       /\ UNCHANGED <<orders, call_logs, queue, notifications, tasks, validated, geo, settings, celery, ledger,
                      delivered, now>>
  ELSE LET delivery == d.order_type = "delivery"
           result == MockValidateAddress(d.address, d.zip_code, fail)
       IN /\ geo' = IF delivery
                      THEN GeoCall("mock", d.address, d.zip_code,
                                   IF fail THEN "error" ELSE "ok")
                      ELSE geo
          /\ IF delivery /\ ~(result.is_valid /\ result.is_in_delivery_zone)
             THEN /\ response' = Resp("api_create_order", NULL, 400, FALSE, "address")
                  /\ UNCHANGED <<celery, ledger, settings, orders, call_logs, queue, notifications, tasks,
                                 validated, delivered, now>>
             ELSE /\ Len(orders) < MaxOrders
                  /\ \E tax \in Round2(SumSeq([k \in DOMAIN d.items |->
                          d.items[k].quantity * d.items[k].unit_price]) * TaxRateNum,
                          TaxRateDen) :
                       orders' = Append(orders,
                         ApiOrderRow(d, calculate_totals(d.items, d.order_type, d.tip, tax)))
                  /\ queue' = Append(queue, Job("export_order_to_excel", Len(orders) + 1))
                  /\ response' = Resp("api_create_order", NULL, 200, TRUE,
                       "Order created successfully!")
                  /\ UNCHANGED <<celery, ledger, settings, call_logs, notifications, tasks, validated,
                                 delivered, now>>

\* ------------------------------------------- PATCH /api/orders/{id}/status
\* the value of each member of models.OrderStatus
OrderStatusValue ==
  [PENDING |-> "pending", CONFIRMED |-> "confirmed",
   PAYMENT_PENDING |-> "payment_pending", PAID |-> "paid",
   PREPARING |-> "preparing", READY |-> "ready",
   OUT_FOR_DELIVERY |-> "out_for_delivery", DELIVERED |-> "delivered",
   PICKED_UP |-> "picked_up", FAILED |-> "failed", CANCELLED |-> "cancelled",
   TRANSFERRED_TO_HUMAN |-> "transferred_to_human"]

\* OrderStatus(value): Enum lookup by value; no member raises ValueError
OrderStatusByValue(value) ==
  {m \in OrderStatus : OrderStatusValue[m] = value}

\* the new_status strings sent: member values, member names, and a stranger
StatusInputs ==
  {"pending", "PENDING", "preparing", "delivered", "DELIVERED", "picked_up",
   "cancelled", "bogus"}

\* str.upper() on them
Upper(s) ==
  CASE s = "pending" -> "PENDING"
    [] s = "preparing" -> "PREPARING"
    [] s = "delivered" -> "DELIVERED"
    [] s = "picked_up" -> "PICKED_UP"
    [] s = "cancelled" -> "CANCELLED"
    [] s = "bogus" -> "BOGUS"
    [] OTHER -> s

\* main.update_order_status: OrderStatus(new_status.upper()) looks the
\* upper-cased string up among the member values, which are lower-case
update_order_status(id, new_status) ==
  LET members == OrderStatusByValue(Upper(new_status))
  IN IF members = {}
     THEN /\ response' = Resp("update_order_status", NULL, 400, FALSE, "Invalid status")
          /\ UNCHANGED <<orders, call_logs, queue, notifications, tasks, validated,
                         geo, settings, celery, ledger, delivered, now>>
     ELSE IF id \notin DOMAIN orders
     THEN /\ response' = Resp("update_order_status", NULL, 404, FALSE, "not found")
          /\ UNCHANGED <<orders, call_logs, queue, notifications, tasks, validated,
                         geo, settings, celery, ledger, delivered, now>>
     ELSE /\ now <= MaxClock
          /\ \E status_enum \in members :
               LET o == orders[id]
                   n == IF status_enum \in {"DELIVERED", "PICKED_UP"}
                          THEN [o EXCEPT !.status = status_enum, !.completed_at = now]
                          ELSE [o EXCEPT !.status = status_enum]
               IN orders' = [orders EXCEPT ![id] =
                    IF n = o THEN o ELSE [n EXCEPT !.updated_at = now]]
          /\ now' = now + 1
          /\ response' = Resp("update_order_status", NULL, 200, TRUE, new_status)
          /\ UNCHANGED <<call_logs, queue, notifications, tasks, validated, geo, settings, celery, ledger,
                         delivered>>

\* ------------------------------------ POST /api/orders/{id}/send-payment-link
\* services/notifications/__init__.py:26-35: the mock in development mode,
\* RealNotificationService otherwise
get_notification_service ==
  IF settings.env_mode = "development" THEN "mock" ELSE "real"

\* send_payment_link(...).success: the mock always succeeds (mock.py:144-181);
\* the real service fails when stripe.checkout.Session.create raises
\* StripeError (real.py:207-230, 268-273).  stripe_ok: the session was created
PaymentLinkResult(stripe_ok) ==
  IF get_notification_service = "mock" THEN TRUE ELSE stripe_ok

\* the amounts up to 40.00, in cents, whose float times 100 lies just under
\* the whole number of cents, so that int(amount * 100) gives one cent less
\* (8.7 * 100 = 869.9999999999999)
TruncatedCents ==
  {29, 57, 58, 113, 114, 115, 116, 201, 203, 205, 207, 226, 228, 230, 232,
   251, 253, 255, 402, 406, 410, 414, 427, 431, 435, 439, 452, 456, 460,
   464, 477, 481, 485, 489, 502, 506, 510, 803, 804, 812, 820, 828, 829,
   837, 845, 853, 854, 862, 870, 878, 879, 887, 895, 903, 904, 912, 920,
   928, 929, 937, 945, 953, 954, 962, 970, 978, 979, 987, 995, 1003, 1004,
   1012, 1020, 1606, 1608, 1615, 1624, 1631, 1633, 1640, 1649, 1656, 1658,
   1665, 1674, 1681, 1683, 1690, 1699, 1706, 1708, 1715, 1724, 1731, 1733,
   1740, 1749, 1756, 1758, 1765, 1774, 1781, 1783, 1790, 1799, 1806, 1808,
   1815, 1824, 1831, 1833, 1840, 1849, 1856, 1858, 1865, 1874, 1881, 1883,
   1890, 1899, 1906, 1908, 1915, 1924, 1931, 1933, 1940, 1949, 1956, 1958,
   1965, 1974, 1981, 1983, 1990, 1999, 2006, 2008, 2015, 2024, 2031, 2033,
   2040, 3205, 3212, 3216, 3223, 3230, 3237, 3241, 3248, 3255, 3262, 3266,
   3273, 3280, 3287, 3291, 3298, 3305, 3312, 3316, 3323, 3330, 3337, 3341,
   3348, 3355, 3362, 3366, 3373, 3380, 3387, 3391, 3398, 3405, 3412, 3416,
   3423, 3430, 3437, 3441, 3448, 3455, 3462, 3466, 3473, 3480, 3487, 3491,
   3498, 3505, 3512, 3516, 3523, 3530, 3537, 3541, 3548, 3555, 3562, 3566,
   3573, 3580, 3587, 3591, 3598, 3605, 3612, 3616, 3623, 3630, 3637, 3641,
   3648, 3655, 3662, 3666, 3673, 3680, 3687, 3691, 3698, 3705, 3712, 3716,
   3723, 3730, 3737, 3741, 3748, 3755, 3762, 3766, 3773, 3780, 3787, 3791,
   3798, 3805, 3812, 3816, 3823, 3830, 3837, 3841, 3848, 3855, 3862, 3866,
   3873, 3880, 3887, 3891, 3898, 3905, 3912, 3916, 3923, 3930, 3937, 3941,
   3948, 3955, 3962, 3966, 3973, 3980, 3987, 3991, 3998}

\* real.py:219: 'unit_amount': int(amount * 100)
StripeUnitAmount(cents) == IF cents \in TruncatedCents THEN cents - 1 ELSE cents

\* the amount the customer is asked for: the mock writes it with two
\* decimals into the message (mock.py:160-164), the real service gives
\* Stripe the unit_amount
LinkAmount(cents) ==
  IF get_notification_service = "mock" THEN cents ELSE StripeUnitAmount(cents)

\* the link issued for order_id: the checkout session's metadata
\* (real.py:225-227), its unit_amount (real.py:219) and the message sent to
\* the customer; amounts in cents
PaymentLink(order_id, amount) ==
  [kind |-> "payment_link", order_id |-> order_id, amount |-> amount]

\* the order marked as awaiting payment whatever the service answered
send_payment_link_unconditional(id, stripe_ok) ==
  IF id \notin DOMAIN orders
  THEN /\ response' = Resp("send_payment_link", NULL, 404, FALSE, "not found")
       /\ UNCHANGED <<orders, call_logs, queue, notifications, tasks, validated, geo, settings, celery, ledger,
                      delivered, now>>
  ELSE LET sent == PaymentLinkResult(stripe_ok)
       IN /\ notifications' =
               IF sent THEN notifications \cup {PaymentLink(id, LinkAmount(orders[id].total_amount))}
               ELSE notifications
          /\ response' = Resp("send_payment_link", NULL, 200, sent,
               IF sent THEN "Payment link sent!" ELSE "Failed to send")
          /\ now <= MaxClock
          /\ orders' = [orders EXCEPT ![id] =
               [@ EXCEPT !.payment_link_sent = TRUE,
                         !.status = "PAYMENT_PENDING",
                         !.updated_at = now]]
          /\ now' = now + 1
          /\ UNCHANGED <<call_logs, queue, tasks, validated, geo, settings, celery, ledger, delivered>>

\* main.send_payment_link, the whole handler
send_payment_link(id, stripe_ok) ==
  IF id \notin DOMAIN orders
  THEN /\ response' = Resp("send_payment_link", NULL, 404, FALSE, "not found")
       /\ UNCHANGED <<orders, call_logs, queue, notifications, tasks, validated, geo, settings, celery, ledger,
                      delivered, now>>
  ELSE LET sent == PaymentLinkResult(stripe_ok)
       IN /\ notifications' =
               IF sent THEN notifications \cup {PaymentLink(id, LinkAmount(orders[id].total_amount))}
               ELSE notifications
          /\ response' = Resp("send_payment_link", NULL, 200, sent,
               IF sent THEN "Payment link sent!" ELSE "Failed to send")
          /\ IF sent
               THEN /\ now <= MaxClock
                    /\ LET o == orders[id]
                           n == [o EXCEPT !.payment_link_sent = TRUE,
                                          !.status = "PAYMENT_PENDING"]
                       IN orders' = [orders EXCEPT ![id] =
                            IF n = o THEN o ELSE [n EXCEPT !.updated_at = now]]
                    /\ now' = now + 1
               ELSE UNCHANGED <<orders, now>>
          /\ UNCHANGED <<call_logs, queue, tasks, validated, geo, settings, celery, ledger, delivered>>

\* ------------------------------------- POST /api/orders/{id}/send-to-kitchen
\* the order dispatched without a look at its payment
send_order_to_kitchen_unguarded(id, commit_ok) ==
  IF id \notin DOMAIN orders
  THEN /\ response' = Resp("send_to_kitchen", NULL, 404, FALSE, "not found")
       /\ UNCHANGED <<orders, call_logs, queue, notifications, tasks, validated, geo, settings,
                      celery, ledger, delivered, now>>
  ELSE /\ now <= MaxClock
       /\ queue' = Append(queue, Job("send_to_kitchen", id))
       /\ now' = now + 1
       /\ orders' = [orders EXCEPT ![id] =
            [orders[id] EXCEPT !.sent_to_kitchen = TRUE,
                               !.sent_to_kitchen_at = now,
                               !.status = "PREPARING",
                               !.updated_at = now]]
       /\ response' = Resp("send_to_kitchen", NULL, 200, TRUE,
            "Order sent to kitchen!")
       /\ UNCHANGED <<call_logs, notifications, tasks, validated, geo, settings, celery, ledger,
                      delivered>>

\* main.send_order_to_kitchen
send_order_to_kitchen(id, commit_ok) ==
  IF id \notin DOMAIN orders
  THEN /\ response' = Resp("send_to_kitchen", NULL, 404, FALSE, "not found")
       /\ UNCHANGED <<orders, call_logs, queue, notifications, tasks, validated, geo, settings,
                      celery, ledger, delivered, now>>
  ELSE IF orders[id].payment_status # "paid" /\ orders[id].payment_method # "cash"
  THEN /\ response' = Resp("send_to_kitchen", NULL, 400, FALSE,
            "Order not paid yet")
       /\ UNCHANGED <<orders, call_logs, queue, notifications, tasks, validated, geo, settings,
                      celery, ledger, delivered, now>>
  ELSE /\ now <= MaxClock
       \* main.py:614: the job is queued before the commit of main.py:629
       /\ queue' = Append(queue, Job("send_to_kitchen", id))
       /\ now' = now + 1
       /\ IF commit_ok
          THEN /\ orders' = [orders EXCEPT ![id] =
                    [orders[id] EXCEPT !.sent_to_kitchen = TRUE,
                                       !.sent_to_kitchen_at = now,
                                       !.status = "PREPARING",
                                       !.updated_at = now]]
               /\ response' = Resp("send_to_kitchen", NULL, 200, TRUE,
                    "Order sent to kitchen!")
          \* db.commit() raises: the session closes without the change
          \* (database.py:42-46) and the framework answers 500
          ELSE /\ UNCHANGED orders
               /\ response' = Resp("send_to_kitchen", NULL, 500, FALSE,
                    "Internal Server Error")
       /\ UNCHANGED <<call_logs, notifications, tasks, validated, geo, settings, celery, ledger,
                      delivered>>

\* ------------------------------------------ the Celery worker (tasks.py)
\* tasks.py:28 and :71, max_retries of the two export tasks
max_retries == 3

ExportTasks == {"export_order_to_excel", "export_call_log_to_excel"}

\* excel_manager.py:28-32: each export task has a ledger file and a lock of its own
LedgerOf(task) == IF task = "export_order_to_excel" THEN "orders" ELSE "calls"

\* a job queued and not yet taken by a worker; retries is request.retries,
\* attempts counts the executions of the task body begun, lost the
\* executions that ended with the death of their worker
PendingRun ==
  [state |-> "PENDING", retries |-> 0, attempts |-> 0, lost |-> 0, pc |-> "none",
   ok |-> FALSE]

Run(k) == IF k \in DOMAIN celery THEN celery[k] ELSE PendingRun

SetRun(k, r) ==
  celery' = [j \in DOMAIN celery \cup {k} |-> IF j = k THEN r ELSE celery[j]]

\* autoretry_for=(Exception,) with max_retries: Task.retry gives up once
\* request.retries + 1 exceeds max_retries
CanRetry(retries) == retries + 1 <= max_retries

\* A worker takes job k and runs the task body up to the lock.
\* send_to_kitchen (tasks.py:117-135) returns its result at once and has no
\* retry policy.  An export task calls ExcelManager.export_*, whose
\* _ensure_data_dir() stands outside the try block (excel_manager.py:102, :174):
\* its exception leaves the task and is retried by autoretry_for.
task_run(k, dir_ok) ==
  /\ k \in DOMAIN queue
  /\ Run(k).state \in {"PENDING", "RETRY"}
  /\ LET r == [Run(k) EXCEPT !.attempts = @ + 1]
     IN IF queue[k].task \notin ExportTasks
        THEN SetRun(k, [r EXCEPT !.state = "SUCCESS", !.pc = "done", !.ok = TRUE])
        ELSE IF ~dir_ok
        THEN IF CanRetry(r.retries)
             THEN SetRun(k, [r EXCEPT !.state = "RETRY", !.retries = @ + 1])
             ELSE SetRun(k, [r EXCEPT !.state = "FAILURE", !.pc = "done"])
        ELSE SetRun(k, [r EXCEPT !.state = "STARTED", !.pc = "lock"])
  /\ UNCHANGED <<orders, call_logs, queue, notifications, tasks, validated, delivered,
                 geo, settings, ledger, now, response>>

\* excel_manager.py:114-116: `with lock:` entered, the lock was free
export_acquire(k) ==
  /\ k \in DOMAIN celery
  /\ celery[k].pc = "lock"
  /\ ledger.lock[LedgerOf(queue[k].task)] = 0
  /\ ledger' = [ledger EXCEPT !.lock[LedgerOf(queue[k].task)] = k]
  /\ SetRun(k, [celery[k] EXCEPT !.pc = "write"])
  /\ UNCHANGED <<orders, call_logs, queue, notifications, tasks, validated, delivered,
                 geo, settings, now, response>>

\* excel_manager.py:162-164 and tasks.py:47-57: the lock stayed held for
\* LOCK_TIMEOUT seconds; Timeout is caught inside export_order, the result
\* says success False, the task logs a warning and returns it.
export_timeout(k) ==
  /\ k \in DOMAIN celery
  /\ celery[k].pc = "lock"
  /\ ledger.lock[LedgerOf(queue[k].task)] # 0
  /\ SetRun(k, [celery[k] EXCEPT !.state = "SUCCESS", !.pc = "done", !.ok = FALSE])
  /\ UNCHANGED <<orders, call_logs, queue, notifications, tasks, validated, delivered,
                 geo, settings, ledger, now, response>>

WriteDraws == {"ok", "unreadable", "error"}

\* excel_manager.py:116-158, the section under the lock: load the file (an
\* unreadable file loads as an empty frame, excel_manager.py:89-97), append
\* the row, save; any exception is caught at :166-168.  The lock is released
\* on every way out of the with block.
export_write(k, draw) ==
  /\ k \in DOMAIN celery
  /\ celery[k].pc = "write"
  /\ LET f == LedgerOf(queue[k].task)
         loaded == IF draw = "unreadable" THEN <<>> ELSE ledger.rows[f]
     IN ledger' = [ledger EXCEPT
                     !.lock[f] = 0,
                     !.rows[f] = IF draw = "error" THEN @
                                 ELSE Append(loaded, queue[k].ref)]
  /\ SetRun(k, [celery[k] EXCEPT !.state = "SUCCESS", !.pc = "done",
                                 !.ok = (draw # "error")])
  /\ UNCHANGED <<orders, call_logs, queue, notifications, tasks, validated, delivered,
                 geo, settings, now, response>>

\* celery_worker.py:37-38, task_acks_late with task_reject_on_worker_lost:
\* the worker process running job k dies before the task returns; the
\* message, not yet acknowledged, goes back to the queue with request.retries
\* as it was.  The dead process's file lock is released; when it died inside
\* the locked section the file may already hold the new row.
worker_lost(k, saved) ==
  /\ k \in DOMAIN celery
  /\ celery[k].state = "STARTED"
  /\ celery[k].lost < MaxLost
  /\ LET f == LedgerOf(queue[k].task)
     IN IF celery[k].pc = "write"
        THEN ledger' = [ledger EXCEPT
                          !.lock[f] = 0,
                          !.rows[f] = IF saved THEN Append(@, queue[k].ref) ELSE @]
        ELSE /\ ~saved
             /\ UNCHANGED ledger
  /\ SetRun(k, [celery[k] EXCEPT !.state = "PENDING", !.pc = "none", !.lost = @ + 1])
  /\ UNCHANGED <<orders, call_logs, queue, notifications, tasks, validated, delivered,
                 geo, settings, now, response>>

\* ------------------------------------------------- voice: conversation steps
\* A Python str whose characters the code inspects is the tuple of its
\* characters.
Uppercase ==
  <<"A", "B", "C", "D", "E", "F", "G", "H", "I", "J", "K", "L", "M",
    "N", "O", "P", "Q", "R", "S", "T", "U", "V", "W", "X", "Y", "Z">>

Lowercase ==
  <<"a", "b", "c", "d", "e", "f", "g", "h", "i", "j", "k", "l", "m",
    "n", "o", "p", "q", "r", "s", "t", "u", "v", "w", "x", "y", "z">>

\* str.lower() on one ASCII character
LowerChar(ch) ==
  IF \E k \in DOMAIN Uppercase : Uppercase[k] = ch
    THEN Lowercase[CHOOSE k \in DOMAIN Uppercase : Uppercase[k] = ch]
    ELSE ch

\* str.lower() on ASCII text
RECURSIVE StrLower(_)
StrLower(s) ==
  IF s = <<>> THEN <<>> ELSE <<LowerChar(Head(s))>> \o StrLower(Tail(s))

\* str.replace(old, new) for one-character old and new
RECURSIVE StrReplace(_, _, _)
StrReplace(s, old, new) ==
  IF s = <<>> THEN <<>>
  ELSE <<IF Head(s) = old THEN new ELSE Head(s)>> \o StrReplace(Tail(s), old, new)

\* `a in b` on two str values: a occurs in b as a substring
StrIn(a, b) ==
  \E i \in 0..(Len(b) - Len(a)) : \A j \in 1..Len(a) : b[i + j] = a[j]

\* VapiWebhookHandler.MENU_ITEMS in its dict order; prices in cents
MENU_ITEMS ==
  <<
    [key |-> <<"p", "i", "z", "z", "a", "_", "m", "a", "r", "g", "h", "e",
              "r", "i", "t", "a">>,
     name |-> <<"P", "i", "z", "z", "a", " ", "M", "a", "r", "g", "h", "e",
              "r", "i", "t", "a">>,
     price |-> 1499],
    [key |-> <<"p", "i", "z", "z", "a", "_", "p", "e", "p", "p", "e", "r",
              "o", "n", "i">>,
     name |-> <<"P", "e", "p", "p", "e", "r", "o", "n", "i", " ", "P", "i",
              "z", "z", "a">>,
     price |-> 1699],
    [key |-> <<"p", "i", "z", "z", "a", "_", "v", "e", "g", "g", "i", "e">>,
     name |-> <<"V", "e", "g", "g", "i", "e", " ", "S", "u", "p", "r", "e",
              "m", "e", " ", "P", "i", "z", "z", "a">>,
     price |-> 1599],
    [key |-> <<"p", "i", "z", "z", "a", "_", "h", "a", "w", "a", "i", "i",
              "a", "n">>,
     name |-> <<"H", "a", "w", "a", "i", "i", "a", "n", " ", "P", "i", "z",
              "z", "a">>,
     price |-> 1699],
    [key |-> <<"p", "a", "s", "t", "a", "_", "c", "a", "r", "b", "o", "n",
              "a", "r", "a">>,
     name |-> <<"P", "a", "s", "t", "a", " ", "C", "a", "r", "b", "o", "n",
              "a", "r", "a">>,
     price |-> 1399],
    [key |-> <<"p", "a", "s", "t", "a", "_", "b", "o", "l", "o", "g", "n",
              "e", "s", "e">>,
     name |-> <<"P", "a", "s", "t", "a", " ", "B", "o", "l", "o", "g", "n",
              "e", "s", "e">>,
     price |-> 1299],
    [key |-> <<"p", "a", "s", "t", "a", "_", "a", "l", "f", "r", "e", "d",
              "o">>,
     name |-> <<"C", "h", "i", "c", "k", "e", "n", " ", "A", "l", "f", "r",
              "e", "d", "o">>,
     price |-> 1499],
    [key |-> <<"c", "a", "e", "s", "a", "r", "_", "s", "a", "l", "a", "d">>,
     name |-> <<"C", "a", "e", "s", "a", "r", " ", "S", "a", "l", "a", "d">>,
     price |-> 899],
    [key |-> <<"g", "a", "r", "d", "e", "n", "_", "s", "a", "l", "a", "d">>,
     name |-> <<"G", "a", "r", "d", "e", "n", " ", "S", "a", "l", "a", "d">>,
     price |-> 799],
    [key |-> <<"g", "a", "r", "l", "i", "c", "_", "b", "r", "e", "a", "d">>,
     name |-> <<"G", "a", "r", "l", "i", "c", " ", "B", "r", "e", "a", "d">>,
     price |-> 599],
    [key |-> <<"m", "o", "z", "z", "a", "r", "e", "l", "l", "a", "_", "s",
              "t", "i", "c", "k", "s">>,
     name |-> <<"M", "o", "z", "z", "a", "r", "e", "l", "l", "a", " ", "S",
              "t", "i", "c", "k", "s">>,
     price |-> 799],
    [key |-> <<"c", "h", "i", "c", "k", "e", "n", "_", "w", "i", "n", "g",
              "s">>,
     name |-> <<"C", "h", "i", "c", "k", "e", "n", " ", "W", "i", "n", "g",
              "s", " ", "(", "1", "0", "p", "c", ")">>,
     price |-> 1299],
    [key |-> <<"t", "i", "r", "a", "m", "i", "s", "u">>,
     name |-> <<"T", "i", "r", "a", "m", "i", "s", "u">>,
     price |-> 799],
    [key |-> <<"c", "h", "e", "e", "s", "e", "c", "a", "k", "e">>,
     name |-> <<"N", "e", "w", " ", "Y", "o", "r", "k", " ", "C", "h", "e",
              "e", "s", "e", "c", "a", "k", "e">>,
     price |-> 699],
    [key |-> <<"c", "o", "k", "e">>,
     name |-> <<"C", "o", "c", "a", "-", "C", "o", "l", "a">>,
     price |-> 299],
    [key |-> <<"s", "p", "r", "i", "t", "e">>,
     name |-> <<"S", "p", "r", "i", "t", "e">>,
     price |-> 299],
    [key |-> <<"w", "a", "t", "e", "r">>,
     name |-> <<"B", "o", "t", "t", "l", "e", "d", " ", "W", "a", "t", "e",
              "r">>,
     price |-> 199],
    [key |-> <<"i", "c", "e", "d", "_", "t", "e", "a">>,
     name |-> <<"I", "c", "e", "d", " ", "T", "e", "a">>,
     price |-> 249] >>

\* dict.get(key, default) on a request dict, given as a record of the keys
\* the request holds
DictGet(d, key, default) == IF key \in DOMAIN d THEN d[key] ELSE default

\* the answer of a conversation step: VapiFunctionResponse(result=...) with
\* the request's parameters kept beside it
ConvResp(op, params, result) ==
  [op |-> op, call_id |-> NULL, http |-> 200, success |-> result.success,
   message |-> result.message, params |-> params, result |-> result]

\* vapi_handler.py:366: item.get("name", "").lower().replace(" ", "_")
ItemName(item) == StrReplace(StrLower(DictGet(item, "name", <<>>)), " ", "_")

\* vapi_handler.py:371-373: the test of one menu entry against an item name
MenuMatches(item_name, menu_key, menu_item) ==
  \/ StrIn(item_name, menu_key)
  \/ StrIn(menu_key, item_name)
  \/ StrIn(item_name, StrLower(menu_item.name))

\* vapi_handler.py:370-381: the loop over MENU_ITEMS leaves at the first
\* entry that matches; 0 when no entry matches
MenuMatch(item_name) ==
  LET hits == {k \in DOMAIN MENU_ITEMS :
                 MenuMatches(item_name, MENU_ITEMS[k].key, MENU_ITEMS[k])}
  IN IF hits = {} THEN 0 ELSE CHOOSE k \in hits : \A j \in hits : k <= j

\* vapi_handler.py:374-379: the entry appended for a requested item
AddedItem(item, k) ==
  LET quantity == DictGet(item, "quantity", 1)
  IN [name |-> MENU_ITEMS[k].name, quantity |-> quantity,
      unit_price |-> MENU_ITEMS[k].price,
      total |-> quantity * MENU_ITEMS[k].price]

\* vapi_handler.py:363-381: added_items after the loop over the request
RECURSIVE AddedItems(_)
AddedItems(items) ==
  IF items = <<>> THEN <<>>
  ELSE LET k == MenuMatch(ItemName(Head(items)))
       IN (IF k = 0 THEN <<>> ELSE <<AddedItem(Head(items), k)>>)
            \o AddedItems(Tail(items))

ItemNotFoundMessage ==
  "I'm sorry, I couldn't find that item on our menu. Could you repeat that?"

\* _func_add_items, the whole handler; item["total"] of an echoed entry
\* without that key raises KeyError, answered by the route's except branch
func_add_items(params) ==
  LET items == DictGet(params, "items", <<>>)
      current_order == DictGet(params, "current_order", <<>>)
      added_items == AddedItems(items)
      all_items == current_order \o added_items
  IN /\ response' =
          IF \E k \in DOMAIN all_items : "total" \notin DOMAIN all_items[k]
            THEN VapiErrorEnvelope("add_items_to_order", NULL)
          ELSE IF added_items # <<>>
            THEN ConvResp("add_items_to_order", params,
                   [success |-> TRUE, added_items |-> added_items,
                    current_order |-> all_items,
                    subtotal |-> SumSeq([k \in DOMAIN all_items |-> all_items[k].total]),
                    message |-> "I've added the items to your order. Would you like anything else?"])
            ELSE ConvResp("add_items_to_order", params,
                   [success |-> FALSE, message |-> ItemNotFoundMessage])
     /\ UNCHANGED <<orders, call_logs, queue, notifications, tasks, validated,
                    delivered, geo, celery, ledger, settings, now>>

\* vapi_handler.py:239 and :249: the words select_order_type takes for pickup
\* and for delivery
PickupWords == {"pickup", "pick up", "pick-up", "carryout", "carry out"}
DeliveryWords == {"delivery", "deliver", "delivered"}

\* vapi_handler.py:237-265: the order type select_order_type answers, NULL
\* when it asks again
SelectOrderType(order_type) ==
  IF Lower(order_type) \in PickupWords THEN "pickup"
  ELSE IF Lower(order_type) \in DeliveryWords THEN "delivery"
  ELSE NULL

\* _func_select_order_type, the whole handler
func_select_order_type(params) ==
  LET order_type == SelectOrderType(DictGet(params, "order_type", ""))
  IN /\ response' =
          IF order_type = "pickup"
            THEN ConvResp("select_order_type", params,
                   [success |-> TRUE, order_type |-> "pickup",
                    message |-> "Perfect! What time would you like to pick up your order?",
                    next_action |-> "get_pickup_time"])
          ELSE IF order_type = "delivery"
            THEN ConvResp("select_order_type", params,
                   [success |-> TRUE, order_type |-> "delivery",
                    message |-> "Sure! What's your delivery address?",
                    next_action |-> "check_delivery_address"])
            ELSE ConvResp("select_order_type", params,
                   [success |-> FALSE,
                    message |-> "I'm sorry, I didn't catch that. Would you like pickup or delivery?",
                    next_action |-> "select_order_type"])
     /\ UNCHANGED <<orders, call_logs, queue, notifications, tasks, validated,
                    delivered, geo, celery, ledger, settings, now>>

\* vapi_handler.py:450-453: an item's own "total" when it has one, else
\* unit_price * quantity
SummarySubtotal(items) ==
  SumSeq([k \in DOMAIN items |->
            DictGet(items[k], "total",
                    DictGet(items[k], "unit_price", 0)
                      * DictGet(items[k], "quantity", 1))])

\* vapi_handler.py:455: compared with "delivery" as sent, no lower()
SummaryDeliveryFee(order_type) ==
  IF order_type = "delivery" THEN delivery_fee ELSE 0

\* _func_get_order_summary, the whole handler
func_get_order_summary(params) ==
  LET items == DictGet(params, "items", DictGet(params, "current_order", <<>>))
      order_type == DictGet(params, "order_type", "delivery")
      subtotal == SummarySubtotal(items)
      fee == SummaryDeliveryFee(order_type)
      tip == DictGet(params, "tip", 0)
  IN /\ \E tax \in Round2(subtotal * TaxRateNum, TaxRateDen) :
          response' = ConvResp("get_order_summary", params,
            [success |-> TRUE, items |-> items, subtotal |-> subtotal,
             tax |-> tax, delivery_fee |-> fee, tip |-> tip,
             total |-> subtotal + tax + fee + tip,
             message |-> "Your order: ... Is this correct?"])
     /\ UNCHANGED <<orders, call_logs, queue, notifications, tasks, validated,
                    delivered, geo, celery, ledger, settings, now>>

\* vapi_handler.py:491: the words taken as a confirmation
Affirmative ==
  {<<"y", "e", "s">>,
   <<"y", "e", "a", "h">>,
   <<"c", "o", "r", "r", "e", "c", "t">>,
   <<"r", "i", "g", "h", "t">>,
   <<"o", "k">>,
   <<"o", "k", "a", "y">>,
   <<"c", "o", "n", "f", "i", "r", "m">>,
   <<"s", "i">>,
   <<"o", "u", "i">>}

\* the cash branch taken whatever the payment method
ConfirmNextAction_cash(payment_method) == "create_order"

\* vapi_handler.py:492-514: "cash" leads to create_order, every other
\* payment method to process_payment
ConfirmNextAction(payment_method) ==
  IF payment_method = "cash" THEN "create_order" ELSE "process_payment"

\* _func_confirm_order, the whole handler
func_confirm_order(params) ==
  LET confirmed == StrLower(DictGet(params, "confirmed", <<>>))
      payment_method == DictGet(params, "payment_method", "card")
  IN /\ response' =
          IF confirmed \in Affirmative
            THEN ConvResp("confirm_order", params,
                   [success |-> TRUE, confirmed |-> TRUE,
                    payment_method |->
                      IF payment_method = "cash" THEN "cash" ELSE "card",
                    message |->
                      IF payment_method = "cash"
                        THEN "Great! Your order will be ready for cash payment. Can I get your name for the order?"
                        ELSE "Perfect! I'll send you a secure payment link via text message. Can I confirm your phone number?",
                    next_action |-> ConfirmNextAction(payment_method)])
            ELSE ConvResp("confirm_order", params,
                   [success |-> FALSE, confirmed |-> FALSE,
                    message |-> "No problem. What would you like to change?"])
     /\ UNCHANGED <<orders, call_logs, queue, notifications, tasks, validated,
                    delivered, geo, celery, ledger, settings, now>>

\* _func_process_payment, the whole handler: the link is issued with
\* order_id=0 (vapi_handler.py:536) and the amount the request names
func_process_payment(params, stripe_ok) ==
  LET sent == PaymentLinkResult(stripe_ok)
      amount == DictGet(params, "amount", DictGet(params, "total", 0))
  IN /\ notifications' =
          IF sent THEN notifications \cup {PaymentLink(0, LinkAmount(amount))}
          ELSE notifications
     /\ response' =
          IF sent
            THEN ConvResp("process_payment", params,
                   [success |-> TRUE, payment_link_sent |-> TRUE,
                    message |-> "I've sent a payment link to your phone. Once you complete the payment, your order will be confirmed and sent to the kitchen."])
            ELSE ConvResp("process_payment", params,
                   [success |-> FALSE,
                    message |-> "I'm having trouble sending the payment link. Would you like to pay with cash instead?"])
     /\ UNCHANGED <<orders, call_logs, queue, tasks, validated, delivered, geo,
                    celery, ledger, settings, now>>

\* ------------------------------------------------------------ specifications
\* The order store under every handler that reads or writes it, each request
\* handled to completion before the next; the voice events are those of one call.
StoreCalls == {"call_1"}

Next ==
  \/ \E c \in StoreCalls, p \in CreateParams : func_create_order(c, p)
  \/ \E c \in StoreCalls : handle_end_of_call(c, Report)
  \/ \E c \in StoreCalls : func_record_message(c, "call me back")
  \/ \E c \in StoreCalls : handle_transfer_request(c)
  \/ \E ev \in Events, wf \in BOOLEAN : stripe_webhook(ev, wf)
  \/ \E d \in ApiParams, f \in BOOLEAN : create_order(d, f)
  \/ \E id \in 1..MaxOrders, st \in StatusInputs : update_order_status(id, st)
  \/ \E id \in 1..MaxOrders, sent \in BOOLEAN : send_payment_link(id, sent)
  \/ \E id \in 1..MaxOrders, ok \in BOOLEAN : send_order_to_kitchen(id, ok)

Spec == Init /\ [][Next]_vars

\* The voice events of two calls in any order; a create_order handler may be
\* suspended at its commit while other events are handled.
CallParams ==
  {Params(t, i, 0, NULL, "card", TRUE) :
     t \in {"pickup", "delivery"}, i \in {<<>>, DraftItems}}

\* the function names sent: two routed ones and one the table does not hold
FunctionInputs == {"create_order", "get_menu", "no_such_function"}

NextCall ==
  \/ \E c \in CallIds, p \in CallParams : func_create_order_begin("w1", c, p)
  \/ func_create_order_commit("w1")
  \/ \E c \in CallIds, a \in AddressInputs, z \in ZipInputs, d \in {"ok", "error"} :
       func_check_address(c, "mock", a, z, d)
  \/ \E c \in CallIds : handle_end_of_call(c, Report)
  \/ \E c \in CallIds : func_record_message(c, "call me back")
  \/ \E e \in WebhookEndpoints, c \in CallIds, n \in FunctionInputs, fc \in BOOLEAN :
       function_call_webhook(e, c, n, fc)

SpecCall == Init /\ [][NextCall]_vars

\* create_order handlers running concurrently (the voice provider retries).
NextRace ==
  \/ \E w \in Workers, c \in CallIds, p \in CallParams :
       func_create_order_begin(w, c, p)
  \/ \E w \in Workers : func_create_order_commit(w)

SpecRace == Init /\ [][NextRace]_vars

\* One order request against the empty store, its parameters drawn widely.
NextTotals ==
  \/ \E c \in CallIds, p \in TotalsParams : orders = <<>> /\ func_create_order(c, p)
  \/ \E d \in ApiParams, f \in BOOLEAN : orders = <<>> /\ create_order(d, f)

SpecTotals == Init /\ [][NextTotals]_vars

\* The order rows under well-formed requests of every handler that creates or
\* rewrites an order: voice and direct creation, end-of-call report, payment
\* event, status update, payment link, send-to-kitchen.
RowParams ==
  {Params(t, DraftItems, 0, pay[1], pay[2], TRUE) :
     t \in {"pickup", "delivery"},
     pay \in {<<NULL, "card">>, <<"pi_0", "card">>}}

\* the status requests of a kitchen display: lowercase values as the enum
\* holds them, one member name
RowStatusInputs == {"delivered", "picked_up", "PENDING"}

PaidEvents ==
  [type : {"checkout.session.completed"}, order_id : 1..MaxOrders,
   payment_intent : PaymentIntents]

NextRows ==
  \/ \E c \in StoreCalls, p \in RowParams : func_create_order(c, p)
  \/ \E d \in ApiParams : create_order(d, FALSE)
  \/ \E c \in StoreCalls : handle_end_of_call(c, Report)
  \/ \E ev \in PaidEvents : stripe_webhook(ev, TRUE)
  \/ \E id \in 1..MaxOrders, st \in RowStatusInputs : update_order_status(id, st)
  \/ \E id \in 1..MaxOrders : send_payment_link(id, TRUE)
  \/ \E id \in 1..MaxOrders : send_order_to_kitchen(id, TRUE)

SpecRows == Init /\ [][NextRows]_vars

\* check_delivery_address requests against either geo backend.
GeoAddressInputs == AddressInputs \cup {"350 fifth avenue"}

NextGeo ==
  \E c \in CallIds, svc \in GeoServices, a \in GeoAddressInputs, z \in ZipInputs,
     d \in GeoDraws : func_check_address(c, svc, a, z, d)

SpecGeo == Init /\ [][NextGeo]_vars

\* The worker running the jobs that create_order and the send-to-kitchen
\* endpoint queue: paid pickup orders, job attempts that may fail, worker
\* processes that may die.
JobParams == {Params("pickup", DraftItems, 0, "pi_0", "card", FALSE)}

JobIds == 1..MaxJobs

NextJobs ==
  \/ \E c \in StoreCalls, p \in JobParams :
       Len(queue) < MaxJobs /\ func_create_order(c, p)
  \/ \E id \in 1..MaxOrders :
       Len(queue) < MaxJobs /\ send_order_to_kitchen(id, TRUE)
  \/ \E k \in JobIds, dir_ok \in BOOLEAN : task_run(k, dir_ok)
  \/ \E k \in JobIds : export_acquire(k)
  \/ \E k \in JobIds : export_timeout(k)
  \/ \E k \in JobIds, draw \in {"ok", "error"} : export_write(k, draw)
  \/ \E k \in JobIds, saved \in BOOLEAN : worker_lost(k, saved)

SpecJobs == Init /\ [][NextJobs]_vars

\* The export jobs of the orders created, run by concurrent workers that all
\* stay alive; the ledger file may fail to load or to save.
NextLedger ==
  \/ \E c \in StoreCalls, p \in JobParams :
       Len(queue) < MaxJobs /\ func_create_order(c, p)
  \/ \E k \in JobIds, dir_ok \in BOOLEAN : task_run(k, dir_ok)
  \/ \E k \in JobIds : export_acquire(k)
  \/ \E k \in JobIds : export_timeout(k)
  \/ \E k \in JobIds, draw \in WriteDraws : export_write(k, draw)

SpecLedger == Init /\ [][NextLedger]_vars

\* The payment webhook of a production deployment, with and without a
\* configured webhook secret, for orders created awaiting payment.
ProductionSettings == {Settings("production", secret) : secret \in WebhookSecrets}

InitProduction == InitStore /\ settings \in ProductionSettings

PayParams ==
  {Params(t, DraftItems, 0, NULL, m, FALSE) :
     t \in {"pickup", "delivery"}, m \in {"card", "cash"}}

NextPay ==
  \/ \E c \in StoreCalls, p \in PayParams : func_create_order(c, p)
  \/ \E ev \in Events, wf \in BOOLEAN, key \in SignatureKeys :
       stripe_webhook_signed(ev, wf, key)
  \/ \E id \in 1..MaxOrders : send_order_to_kitchen(id, TRUE)

SpecPay == InitProduction /\ [][NextPay]_vars

\* One conversation step of a call, its parameters drawn from what a voice
\* assistant may send.  The names asked for: a word of several menu entries,
\* a menu entry's full name, a drink, a dish the menu does not have, and no
\* name at all.
RequestedNames ==
  {<<"P", "i", "z", "z", "a">>,
   <<"P", "e", "p", "p", "e", "r", "o", "n", "i", " ", "P", "i", "z", "z", "a">>,
   <<"C", "o", "k", "e">>,
   <<"s", "u", "s", "h", "i">>,
   <<>>}

RequestedItems ==
  {[name |-> n, quantity |-> q] : n \in RequestedNames, q \in 1..MaxQty}
    \cup {[name |-> n] : n \in RequestedNames}
    \cup {[quantity |-> 1]}

\* current_order as the assistant echoes it: empty, the entry add_items
\* answered before, that entry with another total, and one without total
EchoedOrders ==
  {<<>>,
   <<AddedItem([name |-> MENU_ITEMS[1].name, quantity |-> 1], 1)>>,
   <<[AddedItem([name |-> MENU_ITEMS[1].name, quantity |-> 1], 1)
        EXCEPT !.total = 1]>>,
   <<[name |-> MENU_ITEMS[1].name, quantity |-> 1, unit_price |-> 1499]>>}

\* the items a summary request echoes: as add_items answered them, with a
\* total that is not quantity * unit_price, and without total
SummaryItems ==
  {[name |-> MENU_ITEMS[k].name, quantity |-> q, unit_price |-> MENU_ITEMS[k].price] :
     k \in {1, 17}, q \in 1..MaxQty}
    \cup {AddedItem([name |-> MENU_ITEMS[k].name, quantity |-> q], k) :
            k \in {1, 17}, q \in 1..MaxQty}
    \cup {[AddedItem([name |-> MENU_ITEMS[1].name, quantity |-> q], 1)
             EXCEPT !.total = 1] : q \in 1..MaxQty}

SummaryItemLists == UNION {[1..n -> SummaryItems] : n \in 0..MaxItems}

\* with and without the subtotal and total of an earlier answer echoed
\* the order types a call may name: every word select_order_type takes for
\* pickup, one in capitals, one for delivery and one it does not know
TypeInputs == PickupWords \cup {"Pickup", "delivery", "later"}

SelectParams == {[order_type |-> t] : t \in TypeInputs}

TypeCreateParams ==
  {Params(t, DraftItems, 0, NULL, "card", FALSE) : t \in TypeInputs}

SummaryParams ==
  {[items |-> i, order_type |-> t, tip |-> tip] :
     i \in SummaryItemLists, t \in {"pickup", "delivery"}, tip \in {0, 200}}
    \cup {[items |-> i, order_type |-> t, tip |-> 0, subtotal |-> 1, total |-> 1] :
            i \in SummaryItemLists, t \in {"pickup", "delivery"}}
    \cup {[current_order |-> i] : i \in SummaryItemLists}
    \cup {[items |-> DraftItems, order_type |-> t] : t \in TypeInputs}

AddItemsParams ==
  {[items |-> i, current_order |-> co] :
     i \in UNION {[1..n -> RequestedItems] : n \in 0..MaxItems},
     co \in EchoedOrders}
    \cup {[current_order |-> co] : co \in EchoedOrders}

NextConv ==
  \/ \E p \in AddItemsParams : response.op = "none" /\ func_add_items(p)
  \/ \E p \in SummaryParams : response.op = "none" /\ func_get_order_summary(p)
  \/ \E p \in SelectParams : response.op = "none" /\ func_select_order_type(p)
  \/ \E c \in StoreCalls, p \in TypeCreateParams :
       response.op = "none" /\ func_create_order(c, p)

SpecConv == Init /\ [][NextConv]_vars

\* The card and cash branches of the conversation in a production
\* deployment: confirmation, payment link, order creation, the
\* send-payment-link endpoint, and the checkout events the payment provider
\* posts for the links issued.
ConfirmParams ==
  {[confirmed |-> w, payment_method |-> m] :
     w \in {<<"y", "e", "s">>, <<"Y", "e", "s">>, <<"n", "o">>},
     m \in {"cash", "card", "Cash"}}
    \cup {[confirmed |-> <<"O", "K">>]}

PaymentParams == {[amount |-> 1632, customer_phone |-> "+15550001"]}

FlowParams ==
  {Params(t, DraftItems, 0, NULL, m, FALSE) :
     t \in {"pickup", "delivery"}, m \in {"card", "cash"}}

\* the links of PaymentParams and those for the totals create_order stores
\* for the orders of FlowParams
IssuedLinks ==
  LET FlowTotals ==
        UNION {{VoiceOrderRow(p, "call_1", tax).total_amount :
                  tax \in VoiceTax(VoiceSubtotal(p.items))} : p \in FlowParams}
  IN {PaymentLink(0, StripeUnitAmount(p.amount)) : p \in PaymentParams}
       \cup {PaymentLink(i, StripeUnitAmount(a)) :
               i \in 1..MaxOrders, a \in FlowTotals}

\* the customer pays on an issued link: the provider posts
\* checkout.session.completed with the session's metadata, signed with the
\* endpoint's secret
checkout_completed(link) ==
  /\ link \in notifications
  /\ stripe_webhook_signed(
       [type |-> "checkout.session.completed", order_id |-> link.order_id,
        payment_intent |-> "pi_1"], TRUE, "whsec_1")

NextFlow ==
  \/ \E p \in ConfirmParams : func_confirm_order(p)
  \/ \E p \in PaymentParams, ok \in BOOLEAN : func_process_payment(p, ok)
  \/ \E c \in StoreCalls, p \in FlowParams : func_create_order(c, p)
  \/ \E id \in 1..MaxOrders, ok \in BOOLEAN : send_payment_link(id, ok)
  \/ \E link \in IssuedLinks : checkout_completed(link)

SpecFlow == InitProduction /\ [][NextFlow]_vars

\* The payment links of a production deployment: orders created by the
\* conversation, links requested for them at the endpoint, and links the
\* conversation's process_payment issues for the items it is told.
\* the orders: 2 x Pizza Margherita and 1 x Caesar Salad (MENU_ITEMS, 8.99)
LinkOrderParams ==
  {Params("pickup", i, 0, NULL, "card", FALSE) :
     i \in {DraftItems, <<Item("Caesar Salad", 1, 899)>>}}

LinkPaymentParams ==
  {[amount |-> 3264, items |-> DraftItems, order_type |-> "pickup"],
   [amount |-> 1, items |-> DraftItems, order_type |-> "pickup"],
   [total |-> 3264, items |-> DraftItems, order_type |-> "pickup"],
   [items |-> DraftItems, order_type |-> "pickup"]}

NextLink ==
  \/ \E c \in StoreCalls, p \in LinkOrderParams : func_create_order(c, p)
  \/ \E p \in LinkPaymentParams, ok \in BOOLEAN : func_process_payment(p, ok)
  \/ \E id \in 1..MaxOrders, ok \in BOOLEAN : send_payment_link(id, ok)

SpecLink == InitProduction /\ [][NextLink]_vars

\* ---------------------------------------------------------------- properties
NonTerminalOfCall(c) ==
  {i \in OrdersOfCall(c) : orders[i].status \notin TerminalStatus}

\* C1: a checkout.session.completed event that was already delivered for a
\* stored order is a no-op when delivered again: the order row (updated_at,
\* sent_to_kitchen_at, payment_intent_id, status) is unchanged and no further
\* kitchen job is queued.
C1_RedeliveryIsNoOp ==
  [][\A ev \in Events :
       (ev \in delivered /\ stripe_webhook(ev, TRUE))
         => UNCHANGED <<orders, queue>>]_vars

\* C3: for any call_id at most one order that is not in a terminal status is
\* stored, after any sequence of order creations, payment webhooks and status
\* updates.
C3_OneOpenOrderPerCall ==
  \A c \in CallIds : Cardinality(NonTerminalOfCall(c)) <= 1

\* C10: every stored order of type PICKUP has delivery_fee = 0, whichever
\* operation created it and whichever operations were applied to it afterwards.
C10_PickupHasNoDeliveryFee ==
  \A i \in DOMAIN orders :
    orders[i].order_type = "PICKUP" => orders[i].delivery_fee = 0

\* C10 witness: a PICKUP order that a later operation has rewritten.
C10_PickupOrderUpdated ==
  \E i \in DOMAIN orders :
    /\ orders[i].order_type = "PICKUP"
    /\ orders[i].updated_at # NoTime
    /\ orders[i].delivery_fee = 0

\* C2: when two create_order handlers for one call_id run concurrently, no
\* order of that call being stored when either began, exactly one Order row of
\* that call is stored once both have finished.
C2_ConcurrentCreatesOneRow ==
  \A c \in CallIds :
    (\A w \in Workers :
       /\ tasks[w].pc = "done"
       /\ tasks[w].row[1].call_id = c
       /\ tasks[w].prior = 0)
      => Cardinality(OrdersOfCall(c)) = 1

\* C9: every DELIVERY order stored by create_order belongs to a call whose
\* check_delivery_address had answered valid and in-zone before.
C9_DeliveryOrderWasValidated ==
  \A i \in DOMAIN orders :
    orders[i].order_type = "DELIVERY" => orders[i].call_id \in validated

\* C5: an end-of-call report for a call_id that matches no Order and no
\* CallLog is answered with the acknowledged response and leaves the store
\* unchanged.
C5_UnmatchedReportAcknowledged ==
  [][\A c \in CallIds :
       (OrdersOfCall(c) = {} /\ LogsOfCall(c) = {}
          /\ handle_end_of_call(c, Report))
         => /\ response' = Acknowledged("end-of-call-report", c)
            /\ UNCHANGED <<orders, call_logs, queue>>]_vars

\* an order row / a call-log row with its call metadata blanked
FrameOrder(o) ==
  [o EXCEPT !.call_transcription = NULL, !.call_recording_url = NULL,
            !.call_duration_seconds = NULL, !.updated_at = NoTime]

FrameCallLog(l) ==
  [l EXCEPT !.transcription = NULL, !.recording_url = NULL,
            !.call_duration_seconds = NULL, !.call_ended_at = NoTime]

\* C6: whenever an end-of-call report is handled - before, while or after a
\* create_order or record_message of the same call - it inserts no Order and
\* no CallLog row, queues nothing, and changes nothing of a stored row other
\* than its call metadata (transcript, recording URL, duration, end time).
C6_EndOfCallFrame ==
  [][\A c \in CallIds :
       handle_end_of_call(c, Report)
         => /\ Len(orders') = Len(orders)
            /\ Len(call_logs') = Len(call_logs)
            /\ \A i \in DOMAIN orders :
                 FrameOrder(orders'[i]) = FrameOrder(orders[i])
            /\ \A j \in DOMAIN call_logs :
                 FrameCallLog(call_logs'[j]) = FrameCallLog(call_logs[j])
            /\ UNCHANGED <<queue, notifications>>]_vars

\* C6 witness: a report was just handled for a call that has a stored order
\* while another create_order of that call is suspended at its commit.
C6_ReportAmidCreates ==
  /\ response.op = "end-of-call-report"
  /\ OrdersOfCall(response.call_id) # {}
  /\ \E w \in Workers :
       tasks[w].pc = "commit" /\ tasks[w].row[1].call_id = response.call_id

\* C7: after an end-of-call report for a call that has an Order and/or a
\* CallLog row, those rows hold the report's transcript, recording URL and
\* duration, and the response is the acknowledged one.
C7_MatchedReportPatchesRows ==
  [][\A c \in CallIds :
       ((OrdersOfCall(c) # {} \/ LogsOfCall(c) # {})
          /\ handle_end_of_call(c, Report))
         => /\ response' = Acknowledged("end-of-call-report", c)
            /\ \A i \in OrdersOfCall(c) :
                 /\ orders'[i].call_transcription = Report.transcript
                 /\ orders'[i].call_recording_url = Report.recording_url
                 /\ orders'[i].call_duration_seconds = Report.duration_seconds
            /\ \A j \in LogsOfCall(c) :
                 /\ call_logs'[j].transcription = Report.transcript
                 /\ call_logs'[j].recording_url = Report.recording_url
                 /\ call_logs'[j].call_duration_seconds = Report.duration_seconds]_vars

\* C4: create_order with an empty or missing item list answers success=false
\* with the re-prompt, stores no Order row, queues no export job and sends no
\* confirmation.
C4_EmptyOrderRejected ==
  [][\A c \in CallIds, t \in OrderTypeInputs, tip \in {0, 200}, k \in BOOLEAN :
       func_create_order(c, Params(t, <<>>, tip, NULL, "card", k))
         => /\ response'.success = FALSE
            /\ response'.message =
                 "I don't have any items in your order. What would you like to order?"
            /\ UNCHANGED <<orders, queue, notifications>>]_vars

\* C4 witness: the re-prompt was the answer and nothing is stored or queued.
C4_EmptyOrderReprompted ==
  /\ response.op = "create_order"
  /\ response.success = FALSE
  /\ orders = <<>> /\ queue = <<>> /\ notifications = {}

RECURSIVE ItemsCents(_)
ItemsCents(items) ==
  IF items = <<>> THEN 0
  ELSE Head(items).quantity * Head(items).unit_price + ItemsCents(Tail(items))

\* C8: every stored order has, in cents, subtotal = sum of quantity x
\* unit_price over its items, tax = subtotal x tax_rate rounded to the nearest
\* cent, delivery_fee = the configured fee for DELIVERY and 0 for PICKUP, and
\* total = subtotal + tax + delivery_fee + tip; two $14.99 items delivered at
\* rate 0.08875 and fee $5.99 give 29.98 / 2.66 / 38.63.
C8_TotalsConsistent ==
  \A i \in DOMAIN orders :
    LET o == orders[i] IN
      /\ o.subtotal = ItemsCents(o.items)
      /\ 2 * (o.tax * TaxRateDen - o.subtotal * TaxRateNum) <= TaxRateDen
      /\ 2 * (o.subtotal * TaxRateNum - o.tax * TaxRateDen) <= TaxRateDen
      /\ o.delivery_fee = (IF o.order_type = "DELIVERY" THEN delivery_fee ELSE 0)
      /\ o.total_amount = o.subtotal + o.tax + o.delivery_fee + o.tip
      /\ (o.items = DraftItems /\ o.order_type = "DELIVERY" /\ o.tip = 0)
           => (o.subtotal = 2998 /\ o.tax = 266 /\ o.total_amount = 3863)

\* C8 witness: the delivered order of two $14.99 items is stored with its totals.
C8_ExampleOrderStored ==
  \E i \in DOMAIN orders :
    /\ orders[i].items = DraftItems
    /\ orders[i].order_type = "DELIVERY"
    /\ orders[i].tip = 0
    /\ orders[i].total_amount = 3863

\* C11: check_delivery_address for a non-empty address that the geo backend
\* finds and whose zip code is outside the delivery zone answers with the
\* pickup offer (success false, message offering pickup), not with the
\* address-not-found re-prompt.
C11_OutOfZoneOffersPickup ==
  [][\A c \in CallIds, svc \in GeoServices, a \in GeoAddressInputs \ {""},
        z \in ZipInputs \ ValidZipCodes :
       func_check_address(c, svc, a, z, "ok")
         => /\ response'.success = FALSE
            /\ response'.message = SuggestPickupMessage]_vars

\* C12: validate_address, mock and Google alike, has three outcomes: an
\* address that is empty or not found (or a failed lookup) gives is_valid
\* false; a found address outside the zone gives is_valid true with
\* is_in_delivery_zone false; a found address inside the zone gives both true
\* and a formatted address.
C12_ThreeGeoOutcomes ==
  geo.svc # "none" =>
    LET r == geo.result
        found == IF geo.svc = "mock"
                   THEN geo.draw # "error" /\ geo.address # ""
                   ELSE geo.draw = "ok"
        in_zone == geo.zip_code \in ValidZipCodes
    IN /\ ~found => ~r.is_valid
       /\ (found /\ ~in_zone) => (r.is_valid /\ ~r.is_in_delivery_zone)
       /\ (found /\ in_zone) =>
            (r.is_valid /\ r.is_in_delivery_zone /\ r.formatted_address # <<>>)

\* a response body {result: {success, message, ...}} with a message to speak
IsEnvelope(r) ==
  /\ {"success", "message"} \subseteq DOMAIN r
  /\ r.success \in BOOLEAN
  /\ r.message # ""

\* C13: every response to a function-call webhook event - whatever the
\* function name, known or unknown, and whatever the outcome, an unhandled
\* exception included - is an envelope {result: {success, message}} whose
\* message is a non-empty string.
C13_FunctionCallAnsweredByEnvelope ==
  [][\A e \in WebhookEndpoints, c \in CallIds, n \in FunctionInputs,
        fc \in BOOLEAN :
       function_call_webhook(e, c, n, fc) => IsEnvelope(response')]_vars

\* the position of each status along the lifecycle; the three side branches last
StatusRank ==
  [PENDING |-> 1, CONFIRMED |-> 2, PAYMENT_PENDING |-> 3, PAID |-> 4,
   PREPARING |-> 5, READY |-> 6, OUT_FOR_DELIVERY |-> 7, DELIVERED |-> 8,
   PICKED_UP |-> 8, FAILED |-> 9, CANCELLED |-> 9, TRANSFERRED_TO_HUMAN |-> 9]

\* C14: every change of an order's status, by any operation, leaves a
\* non-terminal status and either moves forward along PENDING -> CONFIRMED ->
\* PAYMENT_PENDING -> PAID -> PREPARING -> READY -> OUT_FOR_DELIVERY ->
\* DELIVERED | PICKED_UP or enters FAILED, CANCELLED or TRANSFERRED_TO_HUMAN.
C14_StatusFollowsLifecycle ==
  [][\A i \in DOMAIN orders :
       orders'[i].status # orders[i].status
         => /\ orders[i].status \notin TerminalStatus
            /\ StatusRank[orders'[i].status] > StatusRank[orders[i].status]]_vars

C18_JobQueuedAfterCommit ==
  [][/\ \A k \in DOMAIN queue' \ DOMAIN queue :
          CASE queue'[k].task = "export_order_to_excel" ->
                 queue'[k].ref \in DOMAIN orders'
            [] queue'[k].task = "export_call_log_to_excel" ->
                 \E i \in DOMAIN call_logs' : call_logs'[i].call_id = queue'[k].ref
            [] OTHER ->
                 /\ queue'[k].ref \in DOMAIN orders'
                 /\ \/ orders'[queue'[k].ref].sent_to_kitchen
                    \/ orders'[queue'[k].ref].status = "PAID"
     /\ \A id \in DOMAIN orders, ok \in BOOLEAN :
          send_order_to_kitchen(id, ok) /\ queue' # queue
            => /\ orders'[id].sent_to_kitchen
               /\ orders'[id].status = "PREPARING"]_vars

\* C19: every job is executed at most 1 + max_retries times, a job that has
\* succeeded or failed for good is not run again, and no step of a job
\* changes an Order or a CallLog.
C19_JobAttemptsBounded ==
  [][/\ \A k \in DOMAIN celery' : celery'[k].attempts <= 1 + max_retries
     /\ \A k \in DOMAIN celery :
          celery[k].state \in {"SUCCESS", "FAILURE"} => celery'[k] = celery[k]
     /\ celery' # celery \/ ledger' # ledger => UNCHANGED <<orders, call_logs>>]_vars

\* C20: an export job whose wait for the ledger lock times out fails as a
\* job: it is marked for retry while its retry budget lasts and is failed
\* after that, never reported as done.
C20_LockTimeoutIsRetried ==
  [][\A k \in JobIds :
       export_timeout(k)
         => celery'[k].state = IF CanRetry(celery[k].retries) THEN "RETRY"
                               ELSE "FAILURE"]_vars

\* the export jobs of ledger f that have reported success
Exported(f) ==
  {k \in DOMAIN celery :
     /\ queue[k].task \in ExportTasks
     /\ LedgerOf(queue[k].task) = f
     /\ celery[k].state = "SUCCESS"
     /\ celery[k].ok}

\* C21: at most one export job at a time is inside the load-append-save
\* section of a ledger, and each ledger holds exactly one row for every
\* export job that has reported success.
C21_NoAppendLost ==
  /\ \A j, k \in DOMAIN celery :
       /\ celery[j].pc = "write" /\ celery[k].pc = "write"
       /\ LedgerOf(queue[j].task) = LedgerOf(queue[k].task)
       => j = k
  /\ \A f \in {"orders", "calls"} :
       Len(ledger.rows[f]) = Cardinality(Exported(f))

\* C22: in production mode a webhook whose signature was not made with the
\* shared secret is rejected, whatever the configuration: it is not answered
\* as received and changes no order and no queue.
C22_RealBackendRejectsBadSignature ==
  [][\A ev \in Events, wf \in BOOLEAN, key \in SignatureKeys \ {"whsec_1"} :
       get_payment_service = "stripe" /\ stripe_webhook_signed(ev, wf, key)
         => /\ ~response'.success
            /\ UNCHANGED <<orders, queue>>]_vars

\* C30: a payment webhook whose verification fails is answered with HTTP 400
\* 'Invalid signature', changes no order and queues no job.
C30_InvalidSignatureAnswered400 ==
  [][\A ev \in Events, wf \in BOOLEAN, key \in SignatureKeys :
       VerifyWebhook(ev, wf, key) = <<>> /\ stripe_webhook_signed(ev, wf, key)
         => /\ response'.http = 400
            /\ response'.message = "Invalid signature"
            /\ UNCHANGED <<orders, queue>>]_vars

C24_UnmatchedItemRefused ==
  (response.op = "add_items_to_order" /\ "params" \in DOMAIN response) =>
    LET items == DictGet(response.params, "items", <<>>)
        unmatched == {k \in DOMAIN items : MenuMatch(ItemName(items[k])) = 0}
    IN unmatched # {} =>
         /\ response.success = FALSE
         /\ response.message = ItemNotFoundMessage

\* C25: the subtotal, tax and total get_order_summary reports are those of the
\* items' quantities and unit prices, the order type and the tip; an echoed
\* subtotal or total, of the request or of an item, does not change them.
C25_SummaryIgnoresEchoedTotals ==
  response.op = "get_order_summary" =>
    LET p == response.params
        items == DictGet(p, "items", DictGet(p, "current_order", <<>>))
        subtotal == SumSeq([k \in DOMAIN items |->
                              items[k].quantity * items[k].unit_price])
        fee == IF DictGet(p, "order_type", "delivery") = "delivery"
                 THEN delivery_fee ELSE 0
    IN /\ response.result.subtotal = subtotal
       /\ response.result.tax \in Round2(subtotal * TaxRateNum, TaxRateDen)
       /\ response.result.total =
            subtotal + response.result.tax + fee + DictGet(p, "tip", 0)

\* the payment method a confirm_order request names
ConfirmedMethod == DictGet(response.params, "payment_method", "card")

\* the links the conversation's process_payment has issued
ConversationLinks ==
  {n \in notifications : n.kind = "payment_link" /\ n.order_id = 0}

\* confirm_order sends a confirmed cash order to create_order and a confirmed
\* card order to process_payment; a successful process_payment has issued a link
ConfirmRoutesByPaymentMethod ==
  /\ (response.op = "confirm_order" /\ response.success) =>
       /\ ConfirmedMethod = "cash" => response.result.next_action = "create_order"
       /\ ConfirmedMethod = "card" => response.result.next_action = "process_payment"
  /\ (response.op = "process_payment" /\ response.success) =>
       ConversationLinks # {}

\* C26 as stated: confirm_order routes cash to create_order and card to
\* process_payment, which issues a payment link, and no Order row of a card
\* payment exists before the payment webhook has confirmed the payment.
C26_NoCardOrderBeforePayment ==
  /\ ConfirmRoutesByPaymentMethod
  /\ \A i \in DOMAIN orders :
       orders[i].payment_method = "card" => orders[i].payment_status = "paid"

\* C26 amended: confirm_order routes cash to create_order and card to
\* process_payment, which issues a payment link; the Order row of a card
\* payment is stored by create_order with payment_status pending, and it is
\* paid exactly when the payment webhook has confirmed a checkout for it.
C26_CardOrderPaidOnlyByWebhook ==
  /\ ConfirmRoutesByPaymentMethod
  /\ \A i \in DOMAIN orders :
       orders[i].payment_method = "card" =>
         IF \E ev \in delivered : ev.order_id = i
           THEN orders[i].payment_status = "paid"
           ELSE orders[i].payment_status = "pending"

\* a card order stored by create_order after the conversation issued its
\* payment link, no payment confirmed yet
C26_CardOrderStoredAwaitingPayment ==
  /\ response.op = "create_order"
  /\ ConversationLinks # {}
  /\ \E i \in DOMAIN orders :
       /\ orders[i].payment_method = "card"
       /\ orders[i].payment_status = "pending"
       /\ ~ \E ev \in delivered : ev.order_id = i

\* C27: a send-payment-link request for a stored order that the provider
\* fails leaves the order's status, payment_status and payment-link fields
\* as they were.
C27_FailedLinkLeavesOrder ==
  [][\A id \in DOMAIN orders :
       (/\ response'.op = "send_payment_link"
        /\ response'.http = 200
        /\ response'.success = FALSE)
         => /\ id \in DOMAIN orders'
            /\ orders'[id].status = orders[id].status
            /\ orders'[id].payment_status = orders[id].payment_status
            /\ orders'[id].payment_link_sent = orders[id].payment_link_sent]_vars

\* the endpoint has answered a failed send for an order awaiting payment
C27_LinkFailedForStoredOrder ==
  /\ response.op = "send_payment_link"
  /\ response.http = 200
  /\ response.success = FALSE
  /\ \E i \in DOMAIN orders :
       orders[i].payment_status = "pending" /\ ~orders[i].payment_link_sent

\* the kitchen jobs queued for order id
KitchenJobs(q, id) == {k \in DOMAIN q : q[k] = Job("send_to_kitchen", id)}

\* C28: whatever payment webhooks and send-to-kitchen requests arrive, an
\* order's kitchen job is queued at most once and its sent_to_kitchen_at is
\* written at most once.
C28_KitchenDispatchAtMostOnce ==
  [][\A id \in DOMAIN orders :
       /\ KitchenJobs(queue, id) # {} => KitchenJobs(queue', id) = KitchenJobs(queue, id)
       /\ orders[id].sent_to_kitchen_at # NoTime =>
            orders'[id].sent_to_kitchen_at = orders[id].sent_to_kitchen_at]_vars

\* C29: for a card order of the conversation (confirm_order, process_payment
\* issues the link, create_order stores the order awaiting payment), the
\* delivery of checkout.session.completed for the issued link makes that
\* order PAID and queues its kitchen job.
C29_CheckoutOnIssuedLinkPaysOrder ==
  [][(/\ response'.op = "stripe_webhook"
      /\ response'.http = 200
      /\ ConversationLinks # {}
      /\ \A n \in notifications : n.kind = "payment_link" => n \in ConversationLinks
      /\ \E i \in DOMAIN orders :
           orders[i].payment_method = "card" /\ orders[i].payment_status = "pending")
       => \E i \in DOMAIN orders :
            /\ orders[i].payment_method = "card"
            /\ orders'[i].status = "PAID"
            /\ KitchenJobs(queue', i) # {}]_vars

\* C31: a record_message call for a call that has no CallLog yet stores one
\* CallLog row (NO_ORDER, wanted_to_order false, the customer's message),
\* queues one call-log export and answers success=true.
C31_MessageRecorded ==
  [][\A c \in CallIds :
       (/\ response'.op = "record_message"
        /\ response'.call_id = c
        /\ LogsOfCall(c) = {})
         => /\ Len(call_logs') = Len(call_logs) + 1
            /\ call_logs'[Len(call_logs')].call_id = c
            /\ call_logs'[Len(call_logs')].outcome = "NO_ORDER"
            /\ call_logs'[Len(call_logs')].wanted_to_order = FALSE
            /\ queue' = Append(queue, Job("export_call_log_to_excel", c))
            /\ response'.success = TRUE]_vars

\* an order the kitchen endpoint must refuse: not paid and not a cash order
Unpaid(o) == o.payment_status # "paid" /\ o.payment_method # "cash"

\* C32: a send-to-kitchen request never dispatches an order that is neither
\* paid nor a cash order (the order stays as it was, no job is queued, and a
\* refusal is HTTP 400 with the store untouched); so every order with
\* sent_to_kitchen set is paid or a cash order.
C32_KitchenOnlyPaidOrCash ==
  [][/\ response'.op = "send_to_kitchen" =>
          /\ \A id \in DOMAIN orders :
               Unpaid(orders[id]) =>
                 /\ orders'[id] = orders[id]
                 /\ KitchenJobs(queue', id) = KitchenJobs(queue, id)
          /\ response'.http = 400 => orders' = orders /\ queue' = queue
          /\ (orders # <<>> /\ \A id \in DOMAIN orders : Unpaid(orders[id])) =>
               response'.http \in {400, 404}
     /\ \A id \in DOMAIN orders' :
          orders'[id].sent_to_kitchen => ~Unpaid(orders'[id])]_vars

\* the endpoint has refused an order awaiting payment while another order
\* was dispatched
C32_UnpaidOrderRefused ==
  /\ response.op = "send_to_kitchen"
  /\ response.http = 400
  /\ \E i \in DOMAIN orders : Unpaid(orders[i]) /\ ~orders[i].sent_to_kitchen
  /\ \E i \in DOMAIN orders : orders[i].sent_to_kitchen

\* C33: the direct-create API answers a DELIVERY request whose address fails
\* validation or lies outside the delivery zone with HTTP 400, stores no
\* Order and queues no export job.
C33_BadDeliveryAddressRefused ==
  [][\A d \in ApiParams, fail \in BOOLEAN :
       (/\ d.order_type = "delivery"
        /\ LET result == MockValidateAddress(d.address, d.zip_code, fail)
           IN ~(result.is_valid /\ result.is_in_delivery_zone)
        /\ create_order(d, fail))
         => /\ response'.http = 400
            /\ UNCHANGED <<orders, queue>>]_vars

\* C34: a transfer-request event is answered with the transfer response; the
\* Order of the call, if there is one, becomes TRANSFERRED_TO_HUMAN with
\* transferred_to_human set, and every other row stays as it was.
C34_TransferRequestHandled ==
  [][\A c \in CallIds :
       (response'.op = "transfer-request" /\ response'.call_id = c)
         => /\ response'.success = TRUE
            /\ response'.message = "transfer"
            /\ \A i \in DOMAIN orders :
                 IF orders[i].call_id = c
                   THEN /\ orders'[i].transferred_to_human = TRUE
                        /\ orders'[i].status = "TRANSFERRED_TO_HUMAN"
                   ELSE orders'[i] = orders[i]
            /\ UNCHANGED <<call_logs, queue>>]_vars

\* C35: the orders ledger never holds two rows with the same order_id.
C35_NoDuplicateLedgerRow ==
  \A i, j \in DOMAIN ledger.rows["orders"] :
    ledger.rows["orders"][i] = ledger.rows["orders"][j] => i = j

\* C36: an order_type that select_order_type takes for pickup gets delivery
\* fee 0 from get_order_summary and is stored by create_order as a PICKUP
\* order without delivery fee.
C36_PickupWordsAgree ==
  [][/\ (/\ response'.op = "get_order_summary"
         /\ "order_type" \in DOMAIN response'.params
         /\ SelectOrderType(response'.params.order_type) = "pickup")
          => response'.result.delivery_fee = 0
     /\ \A c \in StoreCalls, p \in TypeCreateParams :
          (SelectOrderType(p.order_type) = "pickup" /\ func_create_order(c, p))
            => /\ orders'[Len(orders')].order_type = "PICKUP"
               /\ orders'[Len(orders')].delivery_fee = 0]_vars

\* the totals of an item list computed anew: subtotal, tax, fee and tip
RecomputedTotals(items, fee, tip) ==
  LET subtotal == SumSeq([k \in DOMAIN items |->
                            items[k].quantity * items[k].unit_price])
  IN {subtotal + tax + fee + tip :
        tax \in Round2(subtotal * TaxRateNum, TaxRateDen)}

\* C37: a payment link issued by process_payment asks for the total computed
\* anew from the items of the request, and a link issued by the
\* send-payment-link endpoint for the total computed anew from the order's
\* items; an amount or total parameter of the caller does not decide it.
C37_LinkAmountIsRecomputedTotal ==
  [][/\ (response'.op = "process_payment" /\ response'.success) =>
          \A n \in notifications' \ notifications :
            n.amount \in RecomputedTotals(response'.params.items,
              SummaryDeliveryFee(response'.params.order_type), 0)
     /\ (response'.op = "send_payment_link" /\ response'.success) =>
          \A n \in notifications' \ notifications :
            n.amount \in RecomputedTotals(orders[n.order_id].items,
              orders[n.order_id].delivery_fee, orders[n.order_id].tip)]_vars

\* a requested item that names something
HasName(item) == DictGet(item, "name", <<>>) # <<>>

\* C38: add_items_to_order adds a menu item only for a requested item with a
\* non-empty name: the items it adds are those of the named items of the
\* request, and a request whose named items add nothing is answered as an
\* item that is not on the menu.
C38_EmptyNameAddsNothing ==
  (response.op = "add_items_to_order" /\ "params" \in DOMAIN response) =>
    LET named == SelectSeq(DictGet(response.params, "items", <<>>), HasName)
    IN IF AddedItems(named) = <<>>
         THEN /\ response.success = FALSE
              /\ response.message = ItemNotFoundMessage
         ELSE /\ response.success
              /\ response.result.added_items = AddedItems(named)

====
